---- MODULE Spec2Model ----
(***************************************************************************)
(* Cloak security gateway: the admission queue (Interceptor), the queue    *)
(* monitor (PerformanceMonitor), the local detector and classifier client  *)
(* (SecurityService), the decision engine (Gatekeeper) and the health      *)
(* state machine of the extension controller.                              *)
(*                                                                         *)
(* Confidences and thresholds are held in hundredths (0.7 is 70).          *)
(* A prompt's content is abstracted to the set of rule-set categories its  *)
(* text matches; everything the code computes from the text depends on     *)
(* the text only through that set.                                         *)
(***************************************************************************)
EXTENDS Integers, Sequences, FiniteSets, TLC

(***************************************************************************)
(* Bounds of the model.                                                    *)
(***************************************************************************)
\* prompts created in a run of the queue specification
MaxPrompts == 4
\* prompts created in a run of the pipeline specification
MaxPipelinePrompts == 1
\* Interceptor.maxQueueSize, scaled down from 100
MaxQueueSize == 2
\* calls of enforceSecurityPolicy in a run of the gatekeeper specification
MaxGateCalls == 1
\* health probes in a run of the pipeline specification
MaxProbes == 2
\* calls of handleUserOverride for one prompt's decision in a run of the
\* override specification
MaxOverrideCalls == 3

\* configuration change events delivered
MaxConfigChanges == 2

\* indicators in a classifier reply
MaxRemotePatterns == 2

MaxStoredEvents == 9

(***************************************************************************)
(* Types of src/unnamed/part_002 (types/index.ts).                         *)
(***************************************************************************)
ThreatLevels == {"safe", "suspicious", "dangerous"}

Categories == {"rule_bypass", "secret_extraction", "command_injection", "role_manipulation"}

Severities == {"low", "medium", "high"}

Actions == {"allow", "warn", "block"}

NoValue == "none"

\* the confidences the model draws analyses from: 0, 0.1, ..., 1.0 and 0.55
ConfidenceGrid == {0, 10, 20, 30, 40, 50, 55, 60, 70, 80, 90, 100}

(***************************************************************************)
(* ConfigurationService: the sensitivity table.                            *)
(***************************************************************************)
SensitivityLevels == {"low", "medium", "high"}

SENSITIVITY_THRESHOLDS ==
    [s \in SensitivityLevels |->
        CASE s = "low"    -> [blockThreshold |-> 90, warnThreshold |-> 70]
          [] s = "medium" -> [blockThreshold |-> 70, warnThreshold |-> 50]
          [] s = "high"   -> [blockThreshold |-> 50, warnThreshold |-> 30]]

(***************************************************************************)
(* SecurityService: local pattern detection.                               *)
(***************************************************************************)
\* A prompt's content is the set of text fragments it contains that some rule
\* can match; a regex of a rule set is given by the fragment it matches, and
\* content.match(regex)[0] is then that fragment.
Fragments == {"ignore previous instructions", "jailbreak", "reveal your system prompt",
              "sudo ", "you are now a"}

\* the four rule sets in the order detectThreatPatterns walks them, each with
\* its regexes in order (two of rule_bypass's, one of each other set)
ALL_THREAT_PATTERNS ==
    << [type |-> "rule_bypass",       severity |-> "high",
        patterns |-> << "ignore previous instructions", "jailbreak" >>],
       [type |-> "secret_extraction", severity |-> "high",
        patterns |-> << "reveal your system prompt" >>],
       [type |-> "command_injection", severity |-> "high",
        patterns |-> << "sudo " >>],
       [type |-> "role_manipulation", severity |-> "medium",
        patterns |-> << "you are now a" >>] >>

\* content.match(regex) for some regex of the rule set
MatchesRuleSet(content, patternDef) ==
    \E r \in 1..Len(patternDef.patterns) : patternDef.patterns[r] \in content

\* the indicators pushed for the regexes of a rule set from regex r on, were
\* the inner loop to run to its end
RECURSIVE MatchesFrom(_, _, _)
MatchesFrom(content, patternDef, r) ==
    IF r > Len(patternDef.patterns) THEN << >>
    ELSE (IF patternDef.patterns[r] \in content
          THEN << [type     |-> patternDef.type,
                   severity |-> patternDef.severity,
                   pattern  |-> patternDef.patterns[r]] >>
          ELSE << >>) \o MatchesFrom(content, patternDef, r + 1)

\* the inner loop without its break: every matching regex is recorded
matchRuleSetEveryRegex(content, patternDef) == MatchesFrom(content, patternDef, 1)

\* the inner loop of detectThreatPatterns: the first matching regex is
\* recorded, and the break leaves the rule set
matchRuleSet(content, patternDef) ==
    IF MatchesRuleSet(content, patternDef)
    THEN << Head(MatchesFrom(content, patternDef, 1)) >>
    ELSE << >>

RECURSIVE DetectFrom(_, _)
DetectFrom(content, i) ==
    IF i > Len(ALL_THREAT_PATTERNS) THEN << >>
    ELSE matchRuleSet(content, ALL_THREAT_PATTERNS[i]) \o DetectFrom(content, i + 1)

SeqRange(s) == {s[i] : i \in 1..Len(s)}

MaxSeverityOf(patterns) ==
    IF \E i \in 1..Len(patterns) : patterns[i].severity = "high" THEN "high"
    ELSE IF \E i \in 1..Len(patterns) : patterns[i].severity = "medium" THEN "medium"
    ELSE "low"

classifyThreatLevel(patterns, maxSeverity) ==
    LET patternTypes == {patterns[i].type : i \in 1..Len(patterns)}
        highSeverityCount == Cardinality({i \in 1..Len(patterns) : patterns[i].severity = "high"})
    IN  IF Len(patterns) = 0 THEN "safe"
        ELSE IF highSeverityCount >= 2 \/ Cardinality(patternTypes) >= 3 THEN "dangerous"
        ELSE IF maxSeverity = "high" THEN "dangerous"
        ELSE IF maxSeverity = "medium" \/ Len(patterns) >= 2 THEN "suspicious"
        ELSE "suspicious"

detectThreatPatterns(content) ==
    LET detectedPatterns == DetectFrom(content, 1)
    IN  [hasThreats           |-> Len(detectedPatterns) > 0,
         detectedPatterns     |-> detectedPatterns,
         suggestedThreatLevel |-> classifyThreatLevel(detectedPatterns,
                                                      MaxSeverityOf(detectedPatterns))]

(***************************************************************************)
(* SecurityService: merge of the local result with the classifier's.       *)
(***************************************************************************)
severityOrder == [l \in ThreatLevels |->
                    CASE l = "safe" -> 0 [] l = "suspicious" -> 1 [] l = "dangerous" -> 2]

\* the comparison of getMoreSevereThreatLevel turned round
getLessSevereThreatLevel(level1, level2) ==
    IF severityOrder[level1] <= severityOrder[level2] THEN level1 ELSE level2

getMoreSevereThreatLevel(level1, level2) ==
    IF severityOrder[level1] >= severityOrder[level2] THEN level1 ELSE level2

Min(a, b) == IF a <= b THEN a ELSE b

\* a merge that appends every local indicator
MergePatternsUnfiltered(combined, local, i) == combined \o SubSeq(local, i, Len(local))

RECURSIVE MergePatterns(_, _, _)
MergePatterns(combined, local, i) ==
    IF i > Len(local) THEN combined
    ELSE IF local[i].type \in {combined[j].type : j \in 1..Len(combined)}
         THEN MergePatterns(combined, local, i + 1)
         ELSE MergePatterns(Append(combined, local[i]), local, i + 1)

\* [...new Set(patterns.map(p => p.type))]: the types in order of first occurrence
RECURSIVE TypesOf(_)
TypesOf(patterns) ==
    IF patterns = << >> THEN << >>
    ELSE LET rest == TypesOf(SubSeq(patterns, 1, Len(patterns) - 1))
             last == patterns[Len(patterns)].type
         IN  IF last \in SeqRange(rest) THEN rest ELSE Append(rest, last)

\* a reasoning string, as the clauses it is made of
Clause(text) == [clause |-> text, types |-> << >>]

mergeAnalysisResults(localDetection, slmAnalysis) ==
    LET confidence ==
            IF localDetection.hasThreats /\ slmAnalysis.threatLevel # "safe"
            THEN Min(100, slmAnalysis.confidence + 10)
            ELSE IF localDetection.hasThreats /\ slmAnalysis.threatLevel = "safe"
                 THEN 60
                 ELSE slmAnalysis.confidence
    IN  [threatLevel      |-> getMoreSevereThreatLevel(localDetection.suggestedThreatLevel,
                                                       slmAnalysis.threatLevel),
         confidence       |-> confidence,
         detectedPatterns |-> MergePatterns(slmAnalysis.detectedPatterns,
                                            localDetection.detectedPatterns, 1),
         reasoning        |-> IF localDetection.hasThreats
                              THEN Append(slmAnalysis.reasoning,
                                          [clause |-> "Local detection also identified",
                                           types  |-> TypesOf(localDetection.detectedPatterns)])
                              ELSE slmAnalysis.reasoning]

(***************************************************************************)
(* SecurityService.analyzePrompt: what the awaited classifier call leaves. *)
(* The outcome of the call is a reply (a parsed analysis) or a failure     *)
(* code.                                                                   *)
(***************************************************************************)
FailureCodes == {"ECONNREFUSED", "ETIMEDOUT", "HTTP_500"}

\* handleAnalysisError defaulting to safe
handleAnalysisErrorSafe(code) ==
    [threatLevel |-> "safe", confidence |-> 0, detectedPatterns |-> << >>,
     reasoning |-> << Clause("Analysis failed") >>]

handleAnalysisError(code) ==
    [threatLevel      |-> "suspicious",
     confidence       |-> 0,
     detectedPatterns |-> << >>,
     reasoning        |-> << Clause(CASE code = "ECONNREFUSED" ->
                                            "Ollama service is not running or unreachable"
                                      [] code = "ETIMEDOUT" -> "Security analysis timed out"
                                      [] code = "Empty response from Ollama" -> code
                                      [] OTHER -> "Ollama API error") >>]

\* analyzePrompt's fallback with the confidence of degraded mode
analyzePromptFallbackReduced(localDetection, code) ==
    IF localDetection.hasThreats
    THEN [threatLevel      |-> localDetection.suggestedThreatLevel,
          confidence       |-> 60,
          detectedPatterns |-> localDetection.detectedPatterns,
          reasoning        |-> << Clause("Local pattern detection identified threats (SLM unavailable)") >>]
    ELSE handleAnalysisError(code)

analyzePromptFallback(localDetection, code) ==
    IF localDetection.hasThreats
    THEN [threatLevel      |-> localDetection.suggestedThreatLevel,
          confidence       |-> 70,
          detectedPatterns |-> localDetection.detectedPatterns,
          reasoning        |-> << Clause("Local pattern detection identified threats (SLM unavailable)") >>]
    ELSE handleAnalysisError(code)

analyzePromptResult(content, outcome) ==
    IF outcome.ok
    THEN mergeAnalysisResults(detectThreatPatterns(content), outcome.reply)
    ELSE analyzePromptFallback(detectThreatPatterns(content), outcome.code)

(***************************************************************************)
(* SecurityService.parseAnalysisResponse: the body of a classifier reply   *)
(* and the analysis made of it. A body is missing, text that is no JSON,   *)
(* or a JSON object, bare or in a markdown fence; a JSON value is given    *)
(* with what typeof and Array.isArray say of it.                           *)
(***************************************************************************)
BodyKinds == {"missing", "text", "json", "fenced json"}

\* JSON.parse of the body with its fences sliced off succeeds
ParsesAsJson(body) == body.kind \in {"json", "fenced json"}

normalizeThreatlevel(level) == IF level \in ThreatLevels THEN level ELSE "suspicious"

\* a normalisation that passes every number on
normalizeConfidenceUnchecked(confidence) ==
    IF confidence.isNumber THEN confidence.value ELSE 50

normalizeConfidence(confidence) ==
    IF confidence.isNumber /\ confidence.value >= 0 /\ confidence.value <= 100
    THEN confidence.value
    ELSE 50

normalizePatternType(type) == IF type \in Categories THEN type ELSE "rule_bypass"

\* a normalisation that passes every severity on
normalizeSeverityVerbatim(severity) == severity

normalizeSeverity(severity) == IF severity \in Severities THEN severity ELSE "medium"

RECURSIVE NormalizeFrom(_, _)
NormalizeFrom(items, i) ==
    IF i > Len(items) THEN << >>
    ELSE (IF items[i].isObject
          THEN << [type     |-> normalizePatternType(items[i].type),
                   severity |-> normalizeSeverity(items[i].severity),
                   pattern  |-> items[i].pattern] >>
          ELSE << >>) \o NormalizeFrom(items, i + 1)

normalizePatterns(patterns) ==
    IF ~patterns.isArray THEN << >> ELSE NormalizeFrom(patterns.items, 1)

parseAnalysisResponse(body) ==
    IF ParsesAsJson(body)
    THEN [threatLevel      |-> normalizeThreatlevel(body.threatLevel),
          confidence       |-> normalizeConfidence(body.confidence),
          detectedPatterns |-> normalizePatterns(body.detectedPatterns),
          reasoning        |-> IF body.reasoning = ""
                               THEN << Clause("No reasoning provided") >>
                               ELSE << Clause(body.reasoning) >>]
    ELSE [threatLevel      |-> "suspicious",
          confidence       |-> 50,
          detectedPatterns |-> << >>,
          reasoning        |-> << Clause("Failed to parse security analysis response") >>]

\* analyzePrompt once the request has been answered with a body: a missing
\* body is thrown as an Error inside the try, and caught with the failures
analyzePromptReply(content, body) ==
    IF body.kind = "missing"
    THEN analyzePromptFallback(detectThreatPatterns(content), "Empty response from Ollama")
    ELSE mergeAnalysisResults(detectThreatPatterns(content), parseAnalysisResponse(body))

\* what a classifier can answer with: JSON objects whose fields hold valid
\* and invalid values, and bodies that are no JSON
RawConfidences ==
    {[isNumber |-> TRUE, value |-> v] : v \in {0, 95, 100, 150}}
        \cup {[isNumber |-> FALSE, value |-> 0]}

RawPatternItems ==
    { [isObject |-> TRUE,  type |-> "rule_bypass",       severity |-> "high",  pattern |-> "description"],
      [isObject |-> TRUE,  type |-> "role_manipulation", severity |-> "low",   pattern |-> "description"],
      [isObject |-> TRUE,  type |-> "other",             severity |-> "bogus", pattern |-> ""],
      [isObject |-> FALSE, type |-> "",                  severity |-> "",      pattern |-> ""] }

SeqsUpTo(S, n) == UNION {[1..k -> S] : k \in 0..n}

NotAnArray == [isArray |-> FALSE, items |-> << >>]

RawPatternLists ==
    {NotAnArray} \cup {[isArray |-> TRUE, items |-> items] :
                          items \in SeqsUpTo(RawPatternItems, MaxRemotePatterns)}

NoBody == [kind |-> NoValue, threatLevel |-> "", confidence |-> [isNumber |-> FALSE, value |-> 0],
           detectedPatterns |-> NotAnArray, reasoning |-> ""]

Bodies ==
    [kind : {"json", "fenced json"}, threatLevel : ThreatLevels \cup {"critical"},
     confidence : RawConfidences, detectedPatterns : RawPatternLists,
     reasoning : {"", "slm"}]
    \cup {[NoBody EXCEPT !.kind = k] : k \in {"missing", "text"}}

\* the values of a prompt, an analysis and a decision that are not there yet,
\* and JavaScript's null where a decision is expected
NoPrompt == [id |-> 0, content |-> {}, source |-> NoValue]

NoAnalysis == [threatLevel |-> NoValue, confidence |-> 0, detectedPatterns |-> << >>,
               reasoning |-> << >>]

NoDecision == [action |-> NoValue, originalPrompt |-> NoPrompt, analysis |-> NoAnalysis,
               userOverride |-> FALSE]

Null == [action |-> "null", originalPrompt |-> NoPrompt, analysis |-> NoAnalysis,
         userOverride |-> FALSE]

(***************************************************************************)
(* Gatekeeper: the decision.                                               *)
(***************************************************************************)
\* makeDecision with strict comparisons against the thresholds
makeDecisionStrict(analysis, prompt, config) ==
    [action |-> IF analysis.threatLevel = "dangerous"
                   /\ analysis.confidence > config.blockThreshold THEN "block"
                ELSE IF analysis.threatLevel = "dangerous"
                        \/ (analysis.threatLevel = "suspicious"
                            /\ analysis.confidence > config.warnThreshold) THEN "warn"
                ELSE "allow",
     originalPrompt |-> prompt, analysis |-> analysis, userOverride |-> FALSE]

\* a makeDecision that does not carry the prompt it decided on
makeDecisionWithoutPrompt(analysis, prompt, config) ==
    [makeDecisionStrict(analysis, prompt, config) EXCEPT !.originalPrompt = NoPrompt]

makeDecision(analysis, prompt, config) ==
    IF analysis.threatLevel = "dangerous" /\ analysis.confidence >= config.blockThreshold
    THEN [action |-> "block", originalPrompt |-> prompt, analysis |-> analysis,
          userOverride |-> FALSE]
    ELSE IF analysis.threatLevel = "dangerous"
            \/ (analysis.threatLevel = "suspicious"
                /\ analysis.confidence >= config.warnThreshold)
         THEN [action |-> "warn", originalPrompt |-> prompt, analysis |-> analysis,
               userOverride |-> FALSE]
         ELSE [action |-> "allow", originalPrompt |-> prompt, analysis |-> analysis,
               userOverride |-> FALSE]

\* mapDecisionToEventType naming every event after its action
mapDecisionToEventTypeVerbatim(action) == action

mapDecisionToEventType(action) ==
    CASE action = "block" -> "block"
      [] action = "allow" -> "allow"
      [] action = "warn"  -> "analysis"
      [] OTHER            -> "analysis"

\* crypto sha256 of the content: one-way, so the digest is kept apart from the
\* content it was made of
hashPrompt(content) == <<"sha256", content>>

(***************************************************************************)
(* Gatekeeper: the audit log and the override.                             *)
(***************************************************************************)
maxAuditLogSize == 1000

\* Array.slice(-n): the last n elements
SliceLast(s, n) == IF Len(s) <= n THEN s ELSE SubSeq(s, Len(s) - n + 1, Len(s))

decisionEvent(decision) ==
    [eventType    |-> mapDecisionToEventType(decision.action),
     promptHash   |-> hashPrompt(decision.originalPrompt.content),
     promptId     |-> decision.originalPrompt.id,
     threatLevel  |-> decision.analysis.threatLevel,
     confidence   |-> decision.analysis.confidence,
     decision     |-> decision.action,
     userOverride |-> FALSE]

\* the override event logged as an allow event
overrideEventAsAllow(decision) ==
    [eventType    |-> "allow",
     promptHash   |-> hashPrompt(decision.originalPrompt.content),
     promptId     |-> decision.originalPrompt.id,
     threatLevel  |-> decision.analysis.threatLevel,
     confidence   |-> decision.analysis.confidence,
     decision     |-> "allow",
     userOverride |-> TRUE]

overrideEvent(decision) ==
    [eventType    |-> "override",
     promptHash   |-> hashPrompt(decision.originalPrompt.content),
     promptId     |-> decision.originalPrompt.id,
     threatLevel  |-> decision.analysis.threatLevel,
     confidence   |-> decision.analysis.confidence,
     decision     |-> "allow",
     userOverride |-> TRUE]

\* Gatekeeper.logSecurityEvent on the in-memory log
logSecurityEvent(log, event, config) ==
    IF ~config.enableAuditLog THEN log
    ELSE SliceLast(Append(log, event), maxAuditLogSize)

\* handleUserOverride taking a dismissed dialog for consent
handleUserOverrideLenient(decision, confirmation, log, config) ==
    IF confirmation # "Cancel"
    THEN [returned |-> [decision EXCEPT !.action = "allow", !.userOverride = TRUE],
          log      |-> logSecurityEvent(log, overrideEvent(decision), config)]
    ELSE [returned |-> Null, log |-> log]

\* Gatekeeper.handleUserOverride once the confirmation dialog is answered:
\* the value it returns and the audit log it leaves
handleUserOverride(decision, confirmation, log, config) ==
    IF confirmation = "Yes, I understand the risks"
    THEN [returned |-> [decision EXCEPT !.action = "allow", !.userOverride = TRUE],
          log      |-> logSecurityEvent(log, overrideEvent(decision), config)]
    ELSE [returned |-> Null, log |-> log]

Confirmations == {"Yes, I understand the risks", "Cancel", "dismissed"}

Selections == {"View Details", "Override (Proceed Anyway)", "dismissed"}

(***************************************************************************)
(* LocalStorageService: the persisted audit log and the analysis results.  *)
(***************************************************************************)
maxAuditLogEntries == 1000

maxAnalysisResultEntries == 500

\* rotationThreshold 0.8, in tenths
rotationThresholdTenths == 8

\* the configuration the constructor falls back to
DefaultStorageConfig == [maxAuditLogEntries      |-> maxAuditLogEntries,
                         rotationThresholdTenths |-> rotationThresholdTenths]

\* Array.slice(0, n): the first n elements
SliceFirst(s, n) == IF Len(s) <= n THEN s ELSE SubSeq(s, 1, n)

\* a rotation that keeps the oldest entries
storeSecurityEventKeepsOldest(log, event, config) ==
    LET pushed == Append(log, event)
    IN  IF 10 * Len(pushed) >= config.maxAuditLogEntries * config.rotationThresholdTenths
        THEN SliceFirst(pushed, config.maxAuditLogEntries \div 2)
        ELSE pushed

\* storeSecurityEvent with rotateAuditLog, under the service's configuration
storeSecurityEventConfigured(log, event, config) ==
    LET pushed == Append(log, event)
    IN  IF 10 * Len(pushed) >= config.maxAuditLogEntries * config.rotationThresholdTenths
        THEN SliceLast(pushed, config.maxAuditLogEntries \div 2)
        ELSE pushed

storeSecurityEvent(log, event) ==
    LET pushed == Append(log, event)
    IN  IF 10 * Len(pushed) >= maxAuditLogEntries * rotationThresholdTenths
        THEN SliceLast(pushed, maxAuditLogEntries \div 2)
        ELSE pushed

storeAnalysisResult(results, prompt, analysis, action) ==
    LET pushed == Append(results, [promptHash |-> hashPrompt(prompt.content),
                                   promptId   |-> prompt.id,
                                   analysis   |-> analysis,
                                   decision   |-> action])
    IN  IF 10 * Len(pushed) >= maxAnalysisResultEntries * rotationThresholdTenths
        THEN SliceLast(pushed, maxAnalysisResultEntries \div 2)
        ELSE pushed

\* Gatekeeper.logSecurityEvent on the storage service's log: only an event the
\* gatekeeper logs is handed on
persistSecurityEvent(log, event, config) ==
    IF ~config.enableAuditLog THEN log ELSE storeSecurityEvent(log, event)

(***************************************************************************)
(* PerformanceMonitor: the queue statistics.                               *)
(***************************************************************************)
updateQueueStats(stats, currentSize) ==
    [stats EXCEPT !.currentSize = currentSize,
                  !.peakSize = IF currentSize > @ THEN currentSize ELSE @]

recordQueueProcessed(stats) == [stats EXCEPT !.totalProcessed = @ + 1]

recordDroppedRequest(stats) == [stats EXCEPT !.droppedRequests = @ + 1]

canAcceptRequest(stats, maxQueueSize) == stats.currentSize < maxQueueSize

(***************************************************************************)
(* ConfigurationService: the settings it loads and validates, and what the *)
(* extension's listener hands on to SecurityService and Gatekeeper. Of the  *)
(* settings, the sensitivity level, the logging switch, the timeout and    *)
(* the system prompt are followed.                                         *)
(***************************************************************************)
DEFAULT_CONFIG == [threatSensitivity |-> "medium", enableLogging |-> TRUE, timeout |-> 30000]

DEFAULT_SYSTEM_PROMPT == "DEFAULT_SYSTEM_PROMPT"

ConfigKeys == {"threatSensitivity", "enableLogging", "timeout", "systemPrompt"}

\* what settings.json can hold for the cloak section: a level outside the
\* three and a timeout under a second are among them
SettingsValues ==
    [threatSensitivity : SensitivityLevels \cup {"extreme"},
     enableLogging     : BOOLEAN,
     timeout           : {30000, 500},
     systemPrompt      : {DEFAULT_SYSTEM_PROMPT, "custom prompt"}]

loadConfiguration(settings) ==
    [threatSensitivity |-> settings.threatSensitivity,
     enableLogging     |-> settings.enableLogging,
     timeout           |-> settings.timeout]

loadSystemPrompt(settings) == settings.systemPrompt

\* event.affectsConfiguration('cloak.' + key) for each key, for the event of
\* the settings going from old to new
AffectedKeys(old, new) == {key \in ConfigKeys : old[key] # new[key]}

minTimeout == 1000

\* a validation that passes everything
validateConfigurationLenient(config) == [isValid |-> TRUE, errors |-> {}]

validateConfiguration(config) ==
    LET errors ==
            (IF config.threatSensitivity \notin SensitivityLevels
             THEN {"threatSensitivity"} ELSE {})
            \cup (IF config.timeout < minTimeout THEN {"timeout"} ELSE {})
    IN  [isValid |-> errors = {}, errors |-> errors]

\* the table read with its two columns exchanged
getSensitivityThresholdsSwapped(config) ==
    [blockThreshold |-> SENSITIVITY_THRESHOLDS[config.threatSensitivity].warnThreshold,
     warnThreshold  |-> SENSITIVITY_THRESHOLDS[config.threatSensitivity].blockThreshold]

getSensitivityThresholds(config) == SENSITIVITY_THRESHOLDS[config.threatSensitivity]

\* Gatekeeper.updateConfig: { ...this.config, ...config }
updateConfig(config, partial) ==
    [blockThreshold     |-> IF "blockThreshold" \in DOMAIN partial
                            THEN partial.blockThreshold ELSE config.blockThreshold,
     warnThreshold      |-> IF "warnThreshold" \in DOMAIN partial
                            THEN partial.warnThreshold ELSE config.warnThreshold,
     enableUserOverride |-> IF "enableUserOverride" \in DOMAIN partial
                            THEN partial.enableUserOverride ELSE config.enableUserOverride,
     enableAuditLog     |-> IF "enableAuditLog" \in DOMAIN partial
                            THEN partial.enableAuditLog ELSE config.enableAuditLog]

\* the extension's handleConfigurationChange, called by the listener with the
\* affected keys once ConfigurationService holds config and prompt
handleConfigurationChange(affectedKeys, config, prompt, security, gatekeeper) ==
    [security   |-> IF affectedKeys \cap {"timeout", "systemPrompt"} # {}
                    THEN [timeout |-> config.timeout, systemPrompt |-> prompt]
                    ELSE security,
     gatekeeper |-> IF affectedKeys \cap {"threatSensitivity", "enableLogging"} # {}
                    THEN updateConfig(gatekeeper,
                             [blockThreshold |-> getSensitivityThresholds(config).blockThreshold,
                              warnThreshold  |-> getSensitivityThresholds(config).warnThreshold,
                              enableAuditLog |-> config.enableLogging])
                    ELSE gatekeeper,
     uiHealth   |-> "healthy"]

(***************************************************************************)
(* State.                                                                  *)
(***************************************************************************)
VARIABLES
    \* Interceptor
    requestQueue,       \* the queued requests, by prompt id
    isProcessing,       \* the worker's flag
    requestCounter,     \* prompts created so far; the next id is requestCounter + 1
    promptHandler,      \* the handler set by setPromptHandler
    disposed,           \* Interceptor.dispose has run
    \* PerformanceMonitor
    queueStats,         \* currentSize, peakSize, totalProcessed, droppedRequests
    monitorMaxQueueSize,\* config.maxQueueSize
    \* each prompt created
    prompt,             \* id -> the InterceptedPrompt, or NoValue
    hasToken,           \* id -> a cancellation token came with the submission
    hpc,                \* id -> where the submission or its handler stands
    settled,            \* id -> the calls of resolve / reject for the submission
    cancelReq,          \* ids whose token was cancelled at submission or in the queue
    \* extension controller
    isDegradedMode,
    uiHealth,           \* ShieldStatus.serviceHealth last shown
    probes,             \* health probes and connectivity tests answered so far
    lastProbe,          \* how the latest of them was answered
    slmRequests,        \* id -> classifier requests sent for the prompt
    via,                \* id -> the analysis path the handler took
    analysis,           \* id -> the handler's analysis
    decision,           \* id -> the decision enforceSecurityPolicy made
    confirmation,       \* id -> the answer to handleUserOverride's dialog
    overrideCalls,      \* id -> calls of handleUserOverride answered so far
    overrideArg,        \* id -> the decision passed to the latest of them
    overrideResult,     \* id -> what handleUserOverride returned
    \* Gatekeeper and LocalStorageService
    gkConfig,
    auditLog,
    storedAuditLog,
    analysisResults,
    \* history, for stating the claims
    enqueued,           \* ids in the order they were pushed on the queue
    started,            \* ids in the order their handlers were invoked
    removed,            \* ids taken off the queue by cancel or dispose
    capacityRejections, \* submissions rejected with 'Queue capacity exceeded'
    slmOutcome,         \* id -> how the classifier call made for the prompt ended
    \* VS Code settings, ConfigurationService and the settings of SecurityService
    vsSettings,         \* the cloak section of the VS Code settings
    currentConfig,      \* ConfigurationService.currentConfig
    systemPrompt,       \* ConfigurationService.systemPrompt
    securitySettings,   \* SecurityService.timeout and .systemPrompt
    listenerCalls,      \* calls of the extension's configuration change listener
    configChanges,      \* configuration change events delivered so far
    \* a call of SecurityService.analyzePrompt
    svcPc,              \* "idle", "awaiting" the classifier, or "done"
    svcContent,         \* the content of the prompt it was called with
    svcLocal,           \* its localDetection
    svcBody,            \* the body the classifier answered with
    svcSlm,             \* the slmAnalysis parsed from the body
    svcAnalysis,        \* the analysis it returned
    \* what the submitter gets back
    resolvedWith,       \* id -> the prompt its promise was resolved with
    \* LocalStorageService
    storageConfig,      \* maxAuditLogEntries and rotationThreshold (in tenths)
    storeCalls          \* calls of storeSecurityEvent made directly so far

vars == << requestQueue, isProcessing, requestCounter, promptHandler, disposed,
           queueStats, monitorMaxQueueSize, prompt, hasToken, hpc, settled,
           cancelReq, isDegradedMode, uiHealth, probes, slmRequests, via, analysis,
           decision, overrideResult, gkConfig, auditLog, storedAuditLog,
           analysisResults, enqueued, started, removed, capacityRejections, slmOutcome,
           lastProbe, confirmation, overrideCalls, overrideArg, vsSettings,
           currentConfig, systemPrompt, securitySettings, listenerCalls,
           configChanges, svcPc, svcContent, svcLocal, svcBody, svcSlm, svcAnalysis,
           resolvedWith, storageConfig, storeCalls >>

interceptorVars == << requestQueue, isProcessing, requestCounter, promptHandler, disposed >>

monitorVars == << queueStats, monitorMaxQueueSize >>

controllerVars == << isDegradedMode, uiHealth, probes, lastProbe >>

gatekeeperVars == << gkConfig, auditLog, storedAuditLog >>

handlerVars == << slmRequests, slmOutcome, via, analysis, decision, confirmation,
                 overrideResult, overrideCalls, overrideArg >>

queueHistoryVars == << enqueued, started, removed, capacityRejections >>

configVars == << vsSettings, currentConfig, systemPrompt, securitySettings,
                listenerCalls, configChanges >>

serviceVars == << svcPc, svcContent, svcLocal, svcBody, svcSlm, svcAnalysis >>

storageVars == << storageConfig, storeCalls >>

PromptIds == 1..(IF MaxPrompts >= MaxPipelinePrompts THEN MaxPrompts ELSE MaxPipelinePrompts)

\* the handler of a prompt is running: invoked and not yet returned
HandlerPcs == {"handling", "classify", "notify", "confirm", "store"}

\* the pipeline is wired: the handler is the controller's handlePromptAnalysis
Pipeline == promptHandler = "handlePromptAnalysis"

InHandler == {p \in PromptIds : hpc[p] \in HandlerPcs}

(***************************************************************************)
(* Extension controller: the analysis of degraded mode, and the decision   *)
(* with its audit record.                                                  *)
(***************************************************************************)
\* handleDegradedModeAnalysis with the confidence analyzePrompt's fallback uses
degradedModeAnalysisAsFallback(content) ==
    LET localDetection == detectThreatPatterns(content)
    IN  [threatLevel      |-> localDetection.suggestedThreatLevel,
         confidence       |-> 70,
         detectedPatterns |-> localDetection.detectedPatterns,
         reasoning        |-> << Clause("Local pattern detection only (SLM unavailable)") >>]

\* handleDegradedModeAnalysis: the analysis built from local detection alone
degradedModeAnalysis(content) ==
    LET localDetection == detectThreatPatterns(content)
    IN  [threatLevel      |-> localDetection.suggestedThreatLevel,
         confidence       |-> IF localDetection.hasThreats THEN 60 ELSE 30,
         detectedPatterns |-> localDetection.detectedPatterns,
         reasoning        |-> << Clause("Local pattern detection only (SLM unavailable)") >>]

\* Gatekeeper.enforceSecurityPolicy up to the await of notifyUser: the decision
\* and the logs it leaves. An allow decision shows no notification, so the call
\* returns at once.
enforceSecurityPolicy(an, pr, config, log, stored) ==
    LET d == makeDecision(an, pr, config)
    IN  [decision |-> d,
         audit    |-> logSecurityEvent(log, decisionEvent(d), config),
         stored   |-> persistSecurityEvent(stored, decisionEvent(d), config),
         returns  |-> d.action = "allow"]

\* the caller of enforceSecurityPolicy from the call to its next await: the
\* notification, or (handlePromptAnalysis, handleDegradedModeAnalysis) the
\* persisting of the analysis result pushed by storeAnalysisResult
enforceAndStore(an, pr, config, log, stored, results) ==
    LET e == enforceSecurityPolicy(an, pr, config, log, stored)
    IN  [decision |-> e.decision, audit |-> e.audit, stored |-> e.stored,
         pc       |-> IF ~e.returns THEN "notify"
                      ELSE IF Pipeline THEN "store" ELSE "returned",
         results  |-> IF e.returns /\ Pipeline
                      THEN storeAnalysisResult(results, pr, an, e.decision.action)
                      ELSE results]

(***************************************************************************)
(* Interceptor: admission and the worker loop.                             *)
(***************************************************************************)
\* queuePrompt without the Interceptor's own length check
queuePromptOutcomeMonitorOnly(tokenCancelled, stats, monitorMax, queue) ==
    IF tokenCancelled THEN "Cancelled"
    ELSE IF ~canAcceptRequest(stats, monitorMax) THEN "MonitorCapacity"
    ELSE "Queued"

\* Interceptor.queuePrompt: what becomes of a submission
queuePromptOutcome(tokenCancelled, stats, monitorMax, queue) ==
    IF tokenCancelled THEN "Cancelled"
    ELSE IF ~canAcceptRequest(stats, monitorMax) THEN "MonitorCapacity"
    ELSE IF Len(queue) >= MaxQueueSize THEN "QueueCapacity"
    ELSE "Queued"

\* a processQueue that returns at its guard whatever the flag
processQueueNeverEnters(processing) == FALSE

\* processQueue without its isProcessing guard
processQueueEntersUnguarded(processing) == TRUE

\* Interceptor.processQueue: the guard against a second worker
processQueueEnters(processing) == ~processing

\* the synchronous start of the handler for prompt n: handlePromptAnalysis up to
\* its first await, or an arbitrary handler
BeginHandler(n, ui, pr) ==
    IF promptHandler = "stub"
    THEN [pc |-> "handling", via |-> via[n], analysis |-> analysis[n],
          decision |-> decision[n], slm |-> slmRequests[n], ui |-> ui,
          audit |-> auditLog, stored |-> storedAuditLog, results |-> analysisResults]
    ELSE IF isDegradedMode
    THEN LET an == degradedModeAnalysis(pr.content)
             e  == enforceAndStore(an, pr, gkConfig, auditLog,
                                   storedAuditLog, analysisResults)
         IN  [pc |-> e.pc, via |-> "degraded", analysis |-> an,
              decision |-> e.decision, slm |-> slmRequests[n], ui |-> ui,
              audit |-> e.audit, stored |-> e.stored, results |-> e.results]
    ELSE [pc |-> "classify", via |-> "slm", analysis |-> analysis[n],
          decision |-> decision[n], slm |-> slmRequests[n] + 1, ui |-> "healthy",
          audit |-> auditLog, stored |-> storedAuditLog, results |-> analysisResults]

\* Interceptor.processQueue from the top of its loop, with queue q, statistics s,
\* status ui, positions h and the prompts created: the loop ends, or the next
\* request is shifted and its handler invoked
RunWorker(q, s, ui, h, prompts) ==
    IF q = << >>
    THEN /\ requestQueue' = q
         /\ isProcessing' = FALSE
         /\ queueStats' = updateQueueStats(s, 0)
         /\ hpc' = h
         /\ uiHealth' = ui
         /\ UNCHANGED << started, slmRequests, via, analysis, decision, auditLog,
                         storedAuditLog, analysisResults >>
    ELSE LET n == Head(q)
             b == BeginHandler(n, ui, prompts[n])
         IN  /\ requestQueue' = Tail(q)
             /\ isProcessing' = TRUE
             /\ queueStats' = recordQueueProcessed(updateQueueStats(s, Len(q) - 1))
             /\ hpc' = [h EXCEPT ![n] = b.pc]
             /\ started' = Append(started, n)
             /\ uiHealth' = b.ui
             /\ slmRequests' = [slmRequests EXCEPT ![n] = b.slm]
             /\ via' = [via EXCEPT ![n] = b.via]
             /\ analysis' = [analysis EXCEPT ![n] = b.analysis]
             /\ decision' = [decision EXCEPT ![n] = b.decision]
             /\ auditLog' = b.audit
             /\ storedAuditLog' = b.stored
             /\ analysisResults' = b.results

\* a worker that is not started leaves the queue as pushed
LeaveQueued(q, s, h) ==
    /\ requestQueue' = q
    /\ queueStats' = s
    /\ hpc' = h
    /\ UNCHANGED << isProcessing, started, uiHealth, slmRequests, via, analysis,
                    decision, auditLog, storedAuditLog, analysisResults >>

PromptBound == IF promptHandler = "stub" THEN MaxPrompts ELSE MaxPipelinePrompts

\* the contents submitted to the pipeline, by what their text matches
PipelineContents == { {}, {"jailbreak"}, {"you are now a"} }

\* Interceptor.queuePrompt, called by handleChatRequest (with a token) or by
\* handleCommandRequest (without); a command whose input box was open when the
\* interceptor was disposed still submits
queuePrompt(content, token, tokenCancelled) ==
    /\ requestCounter < PromptBound
    /\ tokenCancelled => token
    /\ disposed => ~token
    /\ LET id == requestCounter + 1
           pr == [id |-> id, content |-> content,
                  source |-> IF token THEN "chat" ELSE "command"]
           outcome == queuePromptOutcome(tokenCancelled, queueStats,
                                         monitorMaxQueueSize, requestQueue)
           q1 == Append(requestQueue, id)
           s1 == updateQueueStats(queueStats, Len(q1))
       IN  /\ requestCounter' = id
           /\ prompt' = [prompt EXCEPT ![id] = pr]
           /\ hasToken' = [hasToken EXCEPT ![id] = token]
           /\ IF outcome = "Queued"
              THEN /\ enqueued' = Append(enqueued, id)
                   /\ settled' = settled
                   /\ capacityRejections' = capacityRejections
                   /\ IF processQueueEnters(isProcessing)
                      THEN RunWorker(q1, s1, uiHealth, [hpc EXCEPT ![id] = "queued"],
                                     [prompt EXCEPT ![id] = pr])
                      ELSE LeaveQueued(q1, s1, [hpc EXCEPT ![id] = "queued"])
              ELSE /\ settled' = [settled EXCEPT ![id] =
                                     << IF outcome = "Cancelled" THEN "Cancelled"
                                        ELSE "Queue capacity exceeded" >>]
                   /\ capacityRejections' = IF outcome = "Cancelled"
                                            THEN capacityRejections
                                            ELSE capacityRejections + 1
                   /\ queueStats' = IF outcome = "MonitorCapacity"
                                    THEN recordDroppedRequest(queueStats)
                                    ELSE queueStats
                   /\ hpc' = [hpc EXCEPT ![id] = "answered"]
                   /\ UNCHANGED << requestQueue, isProcessing, enqueued, started,
                                   uiHealth, slmRequests, via, analysis, decision,
                                   auditLog, storedAuditLog, analysisResults >>
    /\ cancelReq' = IF tokenCancelled THEN cancelReq \cup {requestCounter + 1}
                    ELSE cancelReq
    /\ UNCHANGED << configVars, serviceVars, storageVars, resolvedWith,
                    promptHandler, disposed, monitorMaxQueueSize,
                    isDegradedMode, probes, lastProbe, slmOutcome, confirmation,
                    overrideResult, overrideCalls, overrideArg, gkConfig, removed >>

\* a splice that removes nothing
SpliceKeeps(s, i) == s

\* s without its element at index i (Array.splice(i, 1))
Splice(s, i) == SubSeq(s, 1, i - 1) \o SubSeq(s, i + 1, Len(s))

IndexOf(s, x) == IF \E i \in 1..Len(s) : s[i] = x
                 THEN CHOOSE i \in 1..Len(s) : s[i] = x
                 ELSE 0

\* the token's onCancellationRequested listener registered by queuePrompt; the
\* token is that of the chat request, which is over once the submission is
\* settled
cancelQueued(p) ==
    /\ hasToken[p]
    /\ p \in SeqRange(enqueued)
    /\ p \notin cancelReq
    /\ hpc[p] # "answered"
    /\ LET index == IndexOf(requestQueue, p)
       IN  IF index # 0
           THEN /\ requestQueue' = Splice(requestQueue, index)
                /\ queueStats' = updateQueueStats(queueStats, Len(requestQueue) - 1)
                /\ settled' = [settled EXCEPT ![p] = Append(@, "Cancelled")]
                /\ hpc' = [hpc EXCEPT ![p] = "answered"]
                /\ removed' = removed \cup {p}
           ELSE UNCHANGED << requestQueue, queueStats, settled, hpc, removed >>
    /\ cancelReq' = cancelReq \cup {p}
    /\ UNCHANGED << configVars, serviceVars, storageVars, resolvedWith,
                    isProcessing, requestCounter, promptHandler, disposed,
                    monitorMaxQueueSize, prompt, hasToken, controllerVars,
                    handlerVars, gatekeeperVars, analysisResults, enqueued, started,
                    capacityRejections >>

\* Interceptor.dispose
dispose ==
    /\ ~disposed
    /\ disposed' = TRUE
    /\ requestQueue' = << >>
    /\ settled' = [p \in PromptIds |->
                     IF p \in SeqRange(requestQueue)
                     THEN Append(settled[p], "Interceptor disposed")
                     ELSE settled[p]]
    /\ hpc' = [p \in PromptIds |->
                 IF p \in SeqRange(requestQueue) THEN "answered" ELSE hpc[p]]
    /\ removed' = removed \cup SeqRange(requestQueue)
    /\ UNCHANGED << configVars, serviceVars, storageVars, resolvedWith,
                    isProcessing, requestCounter, promptHandler, monitorVars, prompt,
                    hasToken, cancelReq, controllerVars, handlerVars, gatekeeperVars,
                    analysisResults, enqueued, started, capacityRejections >>

\* a processQueue whose loop has no try around the handler: a failure rejects
\* the request and ends the worker
HandlerReturnsEndingWorker(p, threw, ui) ==
    /\ settled' = [settled EXCEPT ![p] =
                      Append(@, IF threw THEN "handler error" ELSE "resolved")]
    /\ resolvedWith' = [resolvedWith EXCEPT ![p] = IF threw THEN @ ELSE prompt[p]]
    /\ IF threw
       THEN /\ isProcessing' = FALSE
            /\ hpc' = [hpc EXCEPT ![p] = "answered"]
            /\ uiHealth' = ui
            /\ UNCHANGED << requestQueue, queueStats, started, slmRequests, via,
                            analysis, decision, auditLog, storedAuditLog,
                            analysisResults >>
       ELSE RunWorker(requestQueue, queueStats, ui, [hpc EXCEPT ![p] = "answered"], prompt)

\* the handler of prompt p returns or throws; processQueue settles the request
\* and goes round its loop
HandlerReturns(p, threw, ui) ==
    /\ settled' = [settled EXCEPT ![p] =
                      Append(@, IF threw THEN "handler error" ELSE "resolved")]
    /\ resolvedWith' = [resolvedWith EXCEPT ![p] = IF threw THEN @ ELSE prompt[p]]
    /\ RunWorker(requestQueue, queueStats, ui, [hpc EXCEPT ![p] = "answered"], prompt)

\* an arbitrary handler set by setPromptHandler completes
stubHandlerDone(p, threw) ==
    /\ hpc[p] = "handling"
    /\ HandlerReturns(p, threw, uiHealth)
    /\ UNCHANGED << configVars, serviceVars, storageVars,
                    requestCounter, promptHandler, disposed, monitorMaxQueueSize,
                    prompt, hasToken, cancelReq, isDegradedMode, probes, lastProbe,
                    slmOutcome, confirmation, overrideResult, overrideCalls,
                    overrideArg, gkConfig, enqueued, removed, capacityRejections >>

(***************************************************************************)
(* The queue specification: an Interceptor with its PerformanceMonitor and *)
(* an arbitrary handler.                                                   *)
(***************************************************************************)
InitCommon ==
    /\ requestQueue = << >>
    /\ isProcessing = FALSE
    /\ requestCounter = 0
    /\ disposed = FALSE
    /\ queueStats = [currentSize |-> 0, peakSize |-> 0, totalProcessed |-> 0,
                     droppedRequests |-> 0]
    /\ prompt = [p \in PromptIds |-> NoPrompt]
    /\ resolvedWith = [p \in PromptIds |-> NoPrompt]
    /\ storeCalls = 0
    /\ hasToken = [p \in PromptIds |-> FALSE]
    /\ hpc = [p \in PromptIds |-> "new"]
    /\ settled = [p \in PromptIds |-> << >>]
    /\ cancelReq = {}
    /\ isDegradedMode = FALSE
    /\ uiHealth = "healthy"
    /\ probes = 0
    /\ lastProbe = NoValue
    /\ confirmation = [p \in PromptIds |-> NoValue]
    /\ overrideCalls = [p \in PromptIds |-> 0]
    /\ overrideArg = [p \in PromptIds |-> NoDecision]
    /\ slmRequests = [p \in PromptIds |-> 0]
    /\ slmOutcome = [p \in PromptIds |-> NoValue]
    /\ via = [p \in PromptIds |-> NoValue]
    /\ analysis = [p \in PromptIds |-> NoAnalysis]
    /\ decision = [p \in PromptIds |-> NoDecision]
    /\ overrideResult = [p \in PromptIds |-> NoDecision]
    /\ auditLog = << >>
    /\ storedAuditLog = << >>
    /\ analysisResults = << >>
    /\ enqueued = << >>
    /\ started = << >>
    /\ removed = {}
    /\ capacityRejections = 0
    /\ svcPc = "idle"
    /\ svcContent = {}
    /\ svcLocal = detectThreatPatterns({})
    /\ svcBody = NoBody
    /\ svcSlm = NoAnalysis
    /\ svcAnalysis = NoAnalysis

\* Gatekeeper's configuration after activate() applied the sensitivity level
GatekeeperConfig(sensitivity, override, logging) ==
    [blockThreshold     |-> SENSITIVITY_THRESHOLDS[sensitivity].blockThreshold,
     warnThreshold      |-> SENSITIVITY_THRESHOLDS[sensitivity].warnThreshold,
     enableUserOverride |-> override,
     enableAuditLog     |-> logging]

\* the settings at activation, loaded by the constructor of
\* ConfigurationService and read from it by that of SecurityService
InitSettings(sensitivity, logging) ==
    /\ vsSettings = [threatSensitivity |-> sensitivity,
                     enableLogging     |-> logging,
                     timeout           |-> DEFAULT_CONFIG.timeout,
                     systemPrompt      |-> DEFAULT_SYSTEM_PROMPT]
    /\ currentConfig = loadConfiguration(vsSettings)
    /\ systemPrompt = loadSystemPrompt(vsSettings)
    /\ securitySettings = [timeout |-> currentConfig.timeout, systemPrompt |-> systemPrompt]
    /\ listenerCalls = 0
    /\ configChanges = 0
    /\ storageConfig = DefaultStorageConfig

\* the monitor is built with the default maxQueueSize (that of the Interceptor)
\* or with a larger configured one
InitQueue ==
    /\ InitCommon
    /\ promptHandler = "stub"
    /\ monitorMaxQueueSize \in {MaxQueueSize, MaxQueueSize + 1}
    /\ gkConfig = GatekeeperConfig("medium", TRUE, TRUE)
    /\ InitSettings("medium", TRUE)

NextQueue ==
    \/ \E token \in BOOLEAN, tokenCancelled \in BOOLEAN :
           queuePrompt({}, token, tokenCancelled)
    \/ \E p \in PromptIds : cancelQueued(p)
    \/ \E p \in PromptIds, threw \in BOOLEAN : stubHandlerDone(p, threw)
    \/ dispose

SpecQueue == InitQueue /\ [][NextQueue]_vars

(***************************************************************************)
(* Properties of the queue.                                                *)
(***************************************************************************)
NotRemoved(p) == p \notin removed

\* C2: at most one handler invocation is in progress at any time, and handlers
\* are started in the order their prompts were enqueued, taken over the prompts
\* that were not cancelled (or disposed of) before being dequeued.
C2_OneHandlerInFifoOrder ==
    /\ Cardinality(InHandler) <= 1
    /\ InHandler # {} => isProcessing
    /\ started \o requestQueue = SelectSeq(enqueued, NotRemoved)

\* two handlers have been started, one is running, a later prompt waits and an
\* earlier one was cancelled out of the queue
C2_Witness ==
    /\ Len(started) >= 2
    /\ Cardinality(InHandler) = 1
    /\ requestQueue # << >>
    /\ \E p \in removed : p < started[Len(started)]

C4_EveryCapacityRejectionCounted ==
    queueStats.droppedRequests = capacityRejections

(***************************************************************************)
(* The handler of the pipeline, handlePromptAnalysis, from await to await, *)
(* and the Gatekeeper's dialogs.                                           *)
(***************************************************************************)
\* the replies of the classifier, as parseAnalysisResponse hands them on
SlmReplies ==
    { [threatLevel |-> "safe", confidence |-> 90, detectedPatterns |-> << >>,
       reasoning |-> << Clause("slm") >>],
      [threatLevel |-> "dangerous", confidence |-> 80, detectedPatterns |-> << >>,
       reasoning |-> << Clause("slm") >>] }

\* the analysis is there: enforceSecurityPolicy, then the next await
Enforce(p, an, h) ==
    LET e == enforceAndStore(an, prompt[p], gkConfig, auditLog, storedAuditLog,
                             analysisResults)
    IN  /\ analysis' = [analysis EXCEPT ![p] = an]
        /\ decision' = [decision EXCEPT ![p] = e.decision]
        /\ auditLog' = e.audit
        /\ storedAuditLog' = e.stored
        /\ analysisResults' = e.results
        /\ hpc' = [h EXCEPT ![p] = e.pc]

\* securityService.analyzePrompt settles: it resolves whatever became of the
\* request, so handlePromptAnalysis goes on to enforceSecurityPolicy
classifyDone(p, outcome) ==
    /\ hpc[p] = "classify"
    /\ slmOutcome' = [slmOutcome EXCEPT ![p] = IF outcome.ok THEN "ok" ELSE outcome.code]
    /\ Enforce(p, analyzePromptResult(prompt[p].content, outcome), hpc)
    /\ UNCHANGED << configVars, serviceVars, storageVars, resolvedWith,
                    interceptorVars, monitorVars, prompt, hasToken, settled, cancelReq,
                    controllerVars, slmRequests, via, confirmation, overrideResult,
                    overrideCalls, overrideArg, gkConfig, queueHistoryVars >>

\* enforceSecurityPolicy returns its decision to its caller
EnforceReturns(p) ==
    IF Pipeline
    THEN /\ hpc' = [hpc EXCEPT ![p] = "store"]
         /\ analysisResults' = storeAnalysisResult(analysisResults, prompt[p],
                                                   analysis[p], decision[p].action)
    ELSE /\ hpc' = [hpc EXCEPT ![p] = "returned"]
         /\ UNCHANGED analysisResults

\* the notification of a block or warn decision is answered
notifyDone(p, selection) ==
    /\ hpc[p] = "notify"
    /\ selection = "Override (Proceed Anyway)"
          => decision[p].action = "block" /\ gkConfig.enableUserOverride
    /\ IF selection = "Override (Proceed Anyway)"
       THEN /\ hpc' = [hpc EXCEPT ![p] = "confirm"]
            /\ UNCHANGED analysisResults
       ELSE EnforceReturns(p)
    /\ UNCHANGED << configVars, serviceVars, storageVars, resolvedWith,
                    interceptorVars, monitorVars, prompt, hasToken, settled, cancelReq,
                    controllerVars, handlerVars, gatekeeperVars, queueHistoryVars >>

\* Gatekeeper.handleUserOverride called for prompt p with decision d, its
\* dialog answered
Override(p, d, answer) ==
    LET r == handleUserOverride(d, answer, auditLog, gkConfig)
    IN  /\ confirmation' = [confirmation EXCEPT ![p] = answer]
        /\ overrideCalls' = [overrideCalls EXCEPT ![p] = @ + 1]
        /\ overrideArg' = [overrideArg EXCEPT ![p] = d]
        /\ overrideResult' = [overrideResult EXCEPT ![p] = r.returned]
        /\ auditLog' = r.log
        /\ storedAuditLog' = IF r.log # auditLog
                             THEN persistSecurityEvent(storedAuditLog,
                                                       overrideEvent(d), gkConfig)
                             ELSE storedAuditLog

\* showBlockNotification's call of handleUserOverride is answered; its result is
\* dropped, and enforceSecurityPolicy returns the decision it made
confirmDone(p, answer) ==
    /\ hpc[p] = "confirm"
    /\ Override(p, decision[p], answer)
    /\ EnforceReturns(p)
    /\ UNCHANGED << configVars, serviceVars, storageVars, resolvedWith,
                    interceptorVars, monitorVars, prompt, hasToken, settled, cancelReq,
                    controllerVars, slmRequests, slmOutcome, via, analysis, decision,
                    gkConfig, queueHistoryVars >>

\* the dialog of a notification rejects with an error that names no service
\* failure: enforceSecurityPolicy throws, handlePromptAnalysis catches, and
\* handleAnalysisError only shows the error in the status; storeAnalysisResult
\* is skipped and the handler returns to processQueue
notifyFails(p) ==
    /\ Pipeline
    /\ hpc[p] \in {"notify", "confirm"}
    /\ HandlerReturns(p, FALSE, "degraded")
    /\ UNCHANGED << configVars, serviceVars, storageVars,
                    requestCounter, promptHandler, disposed, monitorMaxQueueSize,
                    prompt, hasToken, cancelReq, isDegradedMode, probes, lastProbe,
                    slmOutcome, confirmation, overrideResult, overrideCalls,
                    overrideArg, gkConfig, enqueued, removed, capacityRejections >>

\* storeAnalysisResult has persisted: the status is updated and the handler
\* returns to processQueue
storeDone(p) ==
    /\ hpc[p] = "store"
    /\ HandlerReturns(p, FALSE, IF via[p] = "degraded" THEN "degraded" ELSE "healthy")
    /\ UNCHANGED << configVars, serviceVars, storageVars,
                    requestCounter, promptHandler, disposed, monitorMaxQueueSize,
                    prompt, hasToken, cancelReq, isDegradedMode, probes, lastProbe,
                    slmOutcome, confirmation, overrideResult, overrideCalls,
                    overrideArg, gkConfig, enqueued, removed, capacityRejections >>

(***************************************************************************)
(* The health of the classifier service.                                   *)
(***************************************************************************)
\* exitDegradedMode leaving the mode as it is
exitDegradedModeStays(degraded, ui) == [isDegradedMode |-> degraded, uiHealth |-> ui]

enterDegradedMode(degraded, ui) ==
    IF degraded THEN [isDegradedMode |-> degraded, uiHealth |-> ui]
    ELSE [isDegradedMode |-> TRUE, uiHealth |-> "unavailable"]

exitDegradedMode(degraded, ui) ==
    IF ~degraded THEN [isDegradedMode |-> degraded, uiHealth |-> ui]
    ELSE [isDegradedMode |-> FALSE, uiHealth |-> "healthy"]

checkServiceHealthAndUpdateStatus(degraded, ui, isAvailable) ==
    IF isAvailable
    THEN IF degraded THEN exitDegradedMode(degraded, ui)
         ELSE [isDegradedMode |-> degraded, uiHealth |-> "healthy"]
    ELSE enterDegradedMode(degraded, ui)

\* the cloak.testConnectivity command
testConnectivityCommand(degraded, ui, success) ==
    IF success /\ degraded THEN exitDegradedMode(degraded, ui)
    ELSE [isDegradedMode |-> degraded, uiHealth |-> ui]

\* isServiceAvailable answers a health probe
healthProbe(isAvailable) ==
    /\ Pipeline
    /\ probes < MaxProbes
    /\ probes' = probes + 1
    /\ lastProbe' = IF isAvailable THEN "probe ok" ELSE "probe failed"
    /\ LET r == checkServiceHealthAndUpdateStatus(isDegradedMode, uiHealth, isAvailable)
       IN  /\ isDegradedMode' = r.isDegradedMode
           /\ uiHealth' = r.uiHealth
    /\ UNCHANGED << configVars, serviceVars, storageVars, resolvedWith,
                    interceptorVars, monitorVars, prompt, hasToken, hpc, settled,
                    cancelReq, handlerVars, gatekeeperVars, analysisResults,
                    queueHistoryVars >>

\* testEndpointConnectivity answers the command
testConnectivity(success) ==
    /\ Pipeline
    /\ probes < MaxProbes
    /\ probes' = probes + 1
    /\ lastProbe' = IF success THEN "test ok" ELSE "test failed"
    /\ LET r == testConnectivityCommand(isDegradedMode, uiHealth, success)
       IN  /\ isDegradedMode' = r.isDegradedMode
           /\ uiHealth' = r.uiHealth
    /\ UNCHANGED << configVars, serviceVars, storageVars, resolvedWith,
                    interceptorVars, monitorVars, prompt, hasToken, hpc, settled,
                    cancelReq, handlerVars, gatekeeperVars, analysisResults,
                    queueHistoryVars >>

(***************************************************************************)
(* The pipeline specification: the extension as activate() wires it.       *)
(***************************************************************************)
Init ==
    /\ InitCommon
    /\ promptHandler = "handlePromptAnalysis"
    /\ monitorMaxQueueSize = MaxQueueSize
    /\ \E sensitivity \in SensitivityLevels :
           /\ gkConfig = GatekeeperConfig(sensitivity, TRUE, TRUE)
           /\ InitSettings(sensitivity, TRUE)

Next ==
    \/ \E content \in PipelineContents, token \in BOOLEAN, tokenCancelled \in BOOLEAN :
           queuePrompt(content, token, tokenCancelled)
    \/ \E p \in PromptIds : cancelQueued(p)
    \/ \E p \in PromptIds, reply \in SlmReplies :
           classifyDone(p, [ok |-> TRUE, reply |-> reply])
    \/ \E p \in PromptIds, code \in FailureCodes :
           classifyDone(p, [ok |-> FALSE, code |-> code])
    \/ \E p \in PromptIds, selection \in Selections : notifyDone(p, selection)
    \/ \E p \in PromptIds, answer \in Confirmations : confirmDone(p, answer)
    \/ \E p \in PromptIds : storeDone(p)
    \/ \E p \in PromptIds : notifyFails(p)
    \/ \E isAvailable \in BOOLEAN : healthProbe(isAvailable)
    \/ \E success \in BOOLEAN : testConnectivity(success)

Spec == Init /\ [][Next]_vars

(***************************************************************************)
(* The gatekeeper specification: a Gatekeeper called directly.             *)
(***************************************************************************)
GateAnalyses ==
    [threatLevel : ThreatLevels, confidence : ConfidenceGrid,
     detectedPatterns : {<< >>}, reasoning : {<< >>}]

\* enforceSecurityPolicy is called with an analysis
gateEnforce(an) ==
    /\ ~Pipeline
    /\ requestCounter < MaxGateCalls
    /\ LET id == requestCounter + 1
           pr == [id |-> id, content |-> {}, source |-> "chat"]
       IN  /\ requestCounter' = id
           /\ prompt' = [prompt EXCEPT ![id] = pr]
           /\ LET e == enforceAndStore(an, pr, gkConfig, auditLog, storedAuditLog,
                                       analysisResults)
              IN  /\ analysis' = [analysis EXCEPT ![id] = an]
                  /\ decision' = [decision EXCEPT ![id] = e.decision]
                  /\ auditLog' = e.audit
                  /\ storedAuditLog' = e.stored
                  /\ hpc' = [hpc EXCEPT ![id] = e.pc]
    /\ UNCHANGED << configVars, serviceVars, storageVars, resolvedWith,
                    requestQueue, isProcessing, promptHandler, disposed, monitorVars,
                    hasToken, settled, cancelReq, controllerVars, slmRequests,
                    slmOutcome, via, confirmation, overrideResult, overrideCalls,
                    overrideArg, gkConfig, analysisResults, queueHistoryVars >>

\* the gatekeeper specification follows one call of handleUserOverride for a
\* decision, the override specification several
OverrideCallBound == IF promptHandler = "override" THEN MaxOverrideCalls ELSE 1

\* handleUserOverride is called with a decision enforceSecurityPolicy returned,
\* or with the overridden decision an earlier call returned
overrideCall(p, onReturned, answer) ==
    /\ hpc[p] = "returned"
    /\ overrideCalls[p] < OverrideCallBound
    /\ onReturned => overrideResult[p].userOverride
    /\ Override(p, IF onReturned THEN overrideResult[p] ELSE decision[p], answer)
    /\ UNCHANGED << configVars, serviceVars, storageVars, resolvedWith,
                    interceptorVars, monitorVars, prompt, hasToken, hpc, settled,
                    cancelReq, controllerVars, slmRequests, slmOutcome, via, analysis,
                    decision, gkConfig, analysisResults, queueHistoryVars >>

InitGate ==
    /\ InitCommon
    /\ promptHandler = NoValue
    /\ monitorMaxQueueSize = MaxQueueSize
    /\ \E sensitivity \in SensitivityLevels, override \in BOOLEAN, logging \in BOOLEAN :
           /\ gkConfig = GatekeeperConfig(sensitivity, override, logging)
           /\ InitSettings(sensitivity, logging)

NextGate ==
    \/ \E an \in GateAnalyses : gateEnforce(an)
    \/ \E p \in PromptIds, selection \in Selections : notifyDone(p, selection)
    \/ \E p \in PromptIds, answer \in Confirmations : confirmDone(p, answer)
    \/ \E p \in PromptIds, onReturned \in BOOLEAN, answer \in Confirmations :
           overrideCall(p, onReturned, answer)

SpecGate == InitGate /\ [][NextGate]_vars

(***************************************************************************)
(* The override specification: a Gatekeeper whose handleUserOverride is    *)
(* called several times for a decision.                                    *)
(***************************************************************************)
\* analyses decided block, warn and allow under every threshold pair
OverrideAnalyses ==
    { [threatLevel |-> "dangerous", confidence |-> 100, detectedPatterns |-> << >>,
       reasoning |-> << >>],
      [threatLevel |-> "dangerous", confidence |-> 20, detectedPatterns |-> << >>,
       reasoning |-> << >>],
      [threatLevel |-> "safe", confidence |-> 100, detectedPatterns |-> << >>,
       reasoning |-> << >>] }

InitOverride ==
    /\ InitCommon
    /\ promptHandler = "override"
    /\ monitorMaxQueueSize = MaxQueueSize
    /\ \E override \in BOOLEAN, logging \in BOOLEAN :
           /\ gkConfig = GatekeeperConfig("medium", override, logging)
           /\ InitSettings("medium", logging)

NextOverride ==
    \/ \E an \in OverrideAnalyses : gateEnforce(an)
    \/ \E p \in PromptIds, selection \in Selections : notifyDone(p, selection)
    \/ \E p \in PromptIds, answer \in Confirmations : confirmDone(p, answer)
    \/ \E p \in PromptIds, onReturned \in BOOLEAN, answer \in Confirmations :
           overrideCall(p, onReturned, answer)

SpecOverride == InitOverride /\ [][NextOverride]_vars

(***************************************************************************)
(* The classifier specification: SecurityService.analyzePrompt called with *)
(* any content and answered with any body or failure.                      *)
(***************************************************************************)
\* analyzePrompt up to its await: local detection, and the request is sent.
\* The service keeps nothing from one call to the next, so one call from the
\* idle state stands for every call.
analyzePrompt(content) ==
    /\ promptHandler = "analyzePrompt"
    /\ svcPc = "idle"
    /\ svcPc' = "awaiting"
    /\ svcContent' = content
    /\ svcLocal' = detectThreatPatterns(content)
    /\ svcBody' = NoBody
    /\ svcSlm' = NoAnalysis
    /\ svcAnalysis' = NoAnalysis
    /\ UNCHANGED << interceptorVars, monitorVars, prompt, hasToken, hpc, settled,
                    cancelReq, controllerVars, handlerVars, gatekeeperVars,
                    analysisResults, queueHistoryVars, configVars,
                    resolvedWith, storageVars >>

\* httpClient.post resolves with a body
postAnswered(body) ==
    /\ svcPc = "awaiting"
    /\ svcPc' = "done"
    /\ svcBody' = body
    /\ svcSlm' = IF body.kind = "missing" THEN NoAnalysis ELSE parseAnalysisResponse(body)
    /\ svcAnalysis' = analyzePromptReply(svcContent, body)
    /\ UNCHANGED << svcContent, svcLocal >>
    /\ UNCHANGED << interceptorVars, monitorVars, prompt, hasToken, hpc, settled,
                    cancelReq, controllerVars, handlerVars, gatekeeperVars,
                    analysisResults, queueHistoryVars, configVars,
                    resolvedWith, storageVars >>

\* httpClient.post rejects
postFails(code) ==
    /\ svcPc = "awaiting"
    /\ svcPc' = "done"
    /\ svcAnalysis' = analyzePromptFallback(svcLocal, code)
    /\ UNCHANGED << svcContent, svcLocal, svcBody, svcSlm >>
    /\ UNCHANGED << interceptorVars, monitorVars, prompt, hasToken, hpc, settled,
                    cancelReq, controllerVars, handlerVars, gatekeeperVars,
                    analysisResults, queueHistoryVars, configVars,
                    resolvedWith, storageVars >>

InitAnalyze ==
    /\ InitCommon
    /\ promptHandler = "analyzePrompt"
    /\ monitorMaxQueueSize = MaxQueueSize
    /\ gkConfig = GatekeeperConfig("medium", TRUE, TRUE)
    /\ InitSettings("medium", TRUE)

NextAnalyze ==
    \/ \E content \in SUBSET Fragments : analyzePrompt(content)
    \/ \E body \in Bodies : postAnswered(body)
    \/ \E code \in FailureCodes : postFails(code)

SpecAnalyze == InitAnalyze /\ [][NextAnalyze]_vars

(***************************************************************************)
(* The storage specification: a LocalStorageService built with a small     *)
(* configuration, and events stored in it one after the other.             *)
(***************************************************************************)
\* configurations under which a rotation happens within a few events
StorageConfigs == [maxAuditLogEntries : {5, 10}, rotationThresholdTenths : {5, 8}]

\* the n-th event handed to the service
StoredEvent(n, eventType) ==
    [eventType    |-> eventType,
     promptHash   |-> hashPrompt({}),
     promptId     |-> n,
     threatLevel  |-> "safe",
     confidence   |-> 0,
     decision     |-> eventType,
     userOverride |-> FALSE]

\* LocalStorageService.storeSecurityEvent up to its await of persistData
storeEvent(eventType) ==
    /\ promptHandler = "storage"
    /\ storeCalls < MaxStoredEvents
    /\ storeCalls' = storeCalls + 1
    /\ storedAuditLog' = storeSecurityEventConfigured(storedAuditLog,
                                                      StoredEvent(storeCalls + 1, eventType),
                                                      storageConfig)
    /\ UNCHANGED << interceptorVars, monitorVars, prompt, hasToken, hpc, settled,
                    cancelReq, controllerVars, handlerVars, gkConfig, auditLog,
                    analysisResults, queueHistoryVars, configVars, serviceVars,
                    resolvedWith, storageConfig >>

InitStorage ==
    /\ InitCommon
    /\ promptHandler = "storage"
    /\ monitorMaxQueueSize = MaxQueueSize
    /\ gkConfig = GatekeeperConfig("medium", TRUE, TRUE)
    /\ vsSettings = [threatSensitivity |-> "medium",
                     enableLogging     |-> TRUE,
                     timeout           |-> DEFAULT_CONFIG.timeout,
                     systemPrompt      |-> DEFAULT_SYSTEM_PROMPT]
    /\ currentConfig = loadConfiguration(vsSettings)
    /\ systemPrompt = loadSystemPrompt(vsSettings)
    /\ securitySettings = [timeout |-> currentConfig.timeout, systemPrompt |-> systemPrompt]
    /\ listenerCalls = 0
    /\ configChanges = 0
    /\ storageConfig \in StorageConfigs

NextStorage == \E eventType \in {"allow", "block"} : storeEvent(eventType)

SpecStorage == InitStorage /\ [][NextStorage]_vars

(***************************************************************************)
(* The configuration specification: the extension as activate() wires it,  *)
(* with the settings changing under it.                                    *)
(***************************************************************************)
\* vscode.workspace.onDidChangeConfiguration fires for the cloak section, the
\* settings having gone to newSettings: ConfigurationService's
\* handleConfigurationChange, and through notifyListeners the extension's
onDidChangeConfiguration(newSettings) ==
    /\ Pipeline
    /\ configChanges < MaxConfigChanges
    /\ newSettings # vsSettings
    /\ vsSettings' = newSettings
    /\ configChanges' = configChanges + 1
    /\ LET newConfig == loadConfiguration(newSettings)
           newSystemPrompt == loadSystemPrompt(newSettings)
           affectedKeys == AffectedKeys(vsSettings, newSettings)
           validation == validateConfiguration(newConfig)
           applied == handleConfigurationChange(affectedKeys, newConfig, newSystemPrompt,
                                                securitySettings, gkConfig)
       IN  IF ~validation.isValid
           THEN UNCHANGED << currentConfig, systemPrompt, listenerCalls,
                             securitySettings, gkConfig, uiHealth >>
           ELSE /\ currentConfig' = newConfig
                /\ systemPrompt' = newSystemPrompt
                /\ listenerCalls' = listenerCalls + 1
                /\ securitySettings' = applied.security
                /\ gkConfig' = applied.gatekeeper
                /\ uiHealth' = applied.uiHealth
    /\ UNCHANGED << interceptorVars, monitorVars, prompt, hasToken, hpc, settled,
                    cancelReq, isDegradedMode, probes, lastProbe, handlerVars,
                    auditLog, storedAuditLog, analysisResults, queueHistoryVars,
                    serviceVars, resolvedWith, storageVars >>

InitConfig ==
    /\ InitCommon
    /\ promptHandler = "handlePromptAnalysis"
    /\ monitorMaxQueueSize = MaxQueueSize
    /\ gkConfig = GatekeeperConfig(DEFAULT_CONFIG.threatSensitivity, TRUE,
                                   DEFAULT_CONFIG.enableLogging)
    /\ InitSettings(DEFAULT_CONFIG.threatSensitivity, DEFAULT_CONFIG.enableLogging)

NextConfig ==
    \/ \E newSettings \in SettingsValues : onDidChangeConfiguration(newSettings)
    \/ queuePrompt({}, FALSE, FALSE)
    \/ \E p \in PromptIds, reply \in SlmReplies :
           classifyDone(p, [ok |-> TRUE, reply |-> reply])
    \/ \E p \in PromptIds, selection \in Selections : notifyDone(p, selection)
    \/ \E p \in PromptIds, answer \in Confirmations : confirmDone(p, answer)
    \/ \E p \in PromptIds : storeDone(p)

SpecConfig == InitConfig /\ [][NextConfig]_vars

(***************************************************************************)
(* Properties of the decision and of the override.                         *)
(***************************************************************************)
\* the action the rule of decision gives an analysis under a threshold pair
RuleAction(an, config) ==
    IF an.threatLevel = "dangerous" /\ an.confidence >= config.blockThreshold
    THEN "block"
    ELSE IF an.threatLevel = "dangerous"
            \/ (an.threatLevel = "suspicious" /\ an.confidence >= config.warnThreshold)
         THEN "warn"
         ELSE "allow"

\* C1: for every analysis and every active threshold pair the decision made is
\* block if the level is dangerous and the confidence is at least the block
\* threshold; otherwise warn if the level is dangerous, or suspicious with a
\* confidence of at least the warn threshold; otherwise allow.
C1_DecisionFollowsRule ==
    [][ \A p \in PromptIds :
          decision'[p] # decision[p]
            => /\ decision'[p].analysis = analysis'[p]
               /\ decision'[p].action = RuleAction(analysis'[p], gkConfig) ]_vars

\* a dangerous analysis exactly at the block threshold was blocked
C1_Witness ==
    \E p \in PromptIds :
        /\ decision[p].action = "block"
        /\ decision[p].analysis.confidence = gkConfig.blockThreshold

\* C10: a call of handleUserOverride that is not explicitly confirmed returns
\* null, appends no audit event, leaves the decision passed in with its action
\* and override flag, and produces no allow.
C10_UnconfirmedOverrideIsNoOp ==
    [][ \A p \in PromptIds :
          (overrideCalls'[p] # overrideCalls[p]
             /\ confirmation'[p] # "Yes, I understand the risks")
            => /\ overrideResult'[p] = Null
               /\ auditLog' = auditLog
               /\ storedAuditLog' = storedAuditLog
               /\ decision' = decision ]_vars

\* the override of a block decision was asked for and not confirmed
C10_Witness ==
    \E p \in PromptIds :
        /\ confirmation[p] \in {"Cancel", "dismissed"}
        /\ overrideResult[p] = Null
        /\ decision[p].action = "block"
        /\ ~decision[p].userOverride
        /\ Len(auditLog) = 1

(***************************************************************************)
(* Properties of the health of the service and of the fallbacks.           *)
(***************************************************************************)
UnavailableCodes == {"ECONNREFUSED", "ETIMEDOUT"}

\* in this step the classifier call made for prompt p ends as one of outcomes
ClassifierCallEnds(p, outcomes) ==
    slmOutcome[p] = NoValue /\ slmOutcome'[p] \in outcomes

\* in this step a health probe is answered with result
ProbeAnswered(result) == probes' = probes + 1 /\ lastProbe' = result

\* what local detection finds in the content of prompt p
Local(p) == detectThreatPatterns(prompt[p].content)

MentionsUnavailability(reasoning) ==
    \E i \in 1..Len(reasoning) :
        reasoning[i].clause \in
            {"Local pattern detection identified threats (SLM unavailable)",
             "Local pattern detection only (SLM unavailable)"}

\* C5: when the pipeline is healthy and the classifier call made for a prompt
\* fails with connection-refused or timeout, the health state becomes degraded;
\* likewise a failed health probe moves healthy to degraded.
C5_FailureEntersDegraded ==
    [][ ( ~isDegradedMode
          /\ ( (\E p \in PromptIds : ClassifierCallEnds(p, UnavailableCodes))
               \/ ProbeAnswered("probe failed") ) )
        => isDegradedMode' ]_vars

\* C6 as stated: while degraded, a successful health probe and a successful
\* classification call each return the health state to healthy.
C6_ProbeOrClassificationRestores ==
    [][ ( isDegradedMode
          /\ ( ProbeAnswered("probe ok")
               \/ \E p \in PromptIds : ClassifierCallEnds(p, {"ok"}) ) )
        => ~isDegradedMode' ]_vars

\* C6, amended: while degraded, a successful health probe returns the health
\* state to healthy; a successful classification call leaves the health state
\* as it is.
C6_ProbeRestoresClassificationDoesNot ==
    [][ /\ (isDegradedMode /\ ProbeAnswered("probe ok")) => ~isDegradedMode'
        /\ (\E p \in PromptIds : ClassifierCallEnds(p, {"ok"}))
              => isDegradedMode' = isDegradedMode ]_vars

\* a classifier call sent before the mode was entered succeeded, its handler
\* finished, and the mode is still degraded
C6_Witness ==
    /\ isDegradedMode
    /\ lastProbe = "probe failed"
    /\ \E p \in PromptIds : slmOutcome[p] = "ok" /\ hpc[p] = "answered"

\* C7: for every prompt processed while the pipeline is degraded no classifier
\* request is sent, and its analysis has the level local detection suggests
\* and confidence 0.6 if a local indicator fired, 0.3 otherwise.
C7_DegradedAnalysisIsLocal ==
    \A p \in PromptIds :
        via[p] = "degraded"
          => /\ slmRequests[p] = 0
             /\ slmOutcome[p] = NoValue
             /\ analysis[p].threatLevel = Local(p).suggestedThreatLevel
             /\ analysis[p].confidence = IF Local(p).detectedPatterns # << >>
                                         THEN 60 ELSE 30
             /\ decision[p].analysis = analysis[p]

\* a prompt with a local indicator was processed to its end in degraded mode
C7_Witness ==
    \E p \in PromptIds :
        /\ via[p] = "degraded"
        /\ hpc[p] = "answered"
        /\ Local(p).hasThreats
        /\ analysis[p].confidence = 60

OverrideAnswered(p) == overrideCalls'[p] = overrideCalls[p] + 1

Confirmed == "Yes, I understand the risks"

\* the events of kind in log that were logged for prompt p
EventsOf(log, p, kind) ==
    {i \in 1..Len(log) : log[i].promptId = p /\ log[i].eventType = kind}

\* C11: handleUserOverride invoked on a decision whose action is not block
\* (warn, allow, or an already overridden decision) produces no overridden
\* decision and appends no override audit event, even when confirmed.
C11_OverrideOnlyOfBlock ==
    [][ \A p \in PromptIds :
          (OverrideAnswered(p) /\ overrideArg'[p].action # "block")
            => /\ overrideResult'[p] = Null
               /\ auditLog' = auditLog ]_vars

C13_OverrideOneShot ==
    [][ \A p \in PromptIds :
          ( /\ OverrideAnswered(p)
            /\ confirmation'[p] = Confirmed
            /\ overrideCalls[p] >= 1
            /\ confirmation[p] = Confirmed
            /\ overrideArg'[p] = overrideArg[p] )
            => /\ auditLog' = auditLog
               /\ Cardinality(EventsOf(auditLog', p, "override")) <= 1 ]_vars

\* the kind of audit event the action of a decision is to be logged as
KindOf(action) ==
    CASE action = "block" -> "block"
      [] action = "allow" -> "allow"
      [] action = "warn"  -> "analysis"

\* in this step enforceSecurityPolicy decides for prompt p
Decides(p) == decision[p].action = NoValue /\ decision'[p].action # NoValue

\* the audit log gains exactly one event, of the kind of p's decision
OneEventOfDecision(p) ==
    /\ Len(auditLog') = Len(auditLog) + 1
    /\ SubSeq(auditLog', 1, Len(auditLog)) = auditLog
    /\ auditLog'[Len(auditLog')].eventType = KindOf(decision'[p].action)
    /\ auditLog'[Len(auditLog')].decision = decision'[p].action
    /\ auditLog'[Len(auditLog')].promptId = p

\* C14 as stated: every call of enforceSecurityPolicy appends exactly one audit
\* event, of kind block for block, allow for allow and analysis for warn, in
\* every configuration of the engine.
C14_EveryDecisionLogged ==
    [][ \A p \in PromptIds : Decides(p) => OneEventOfDecision(p) ]_vars

\* C14, amended: every call of enforceSecurityPolicy appends exactly one audit
\* event, of kind block for block, allow for allow and analysis for warn, when
\* audit logging is enabled in the engine's configuration, and none when it is
\* disabled.
C14_EveryDecisionLoggedIfEnabled ==
    [][ \A p \in PromptIds :
          Decides(p) => IF gkConfig.enableAuditLog
                        THEN OneEventOfDecision(p)
                        ELSE auditLog' = auditLog ]_vars

\* a warn decision was logged as one event of kind analysis
C14_Witness ==
    \E p \in PromptIds :
        /\ decision[p].action = "warn"
        /\ gkConfig.enableAuditLog
        /\ Len(auditLog) = 1
        /\ auditLog[1].eventType = "analysis"
        /\ auditLog[1].promptId = p

(***************************************************************************)
(* Properties of a whole pass of the handler.                              *)
(***************************************************************************)
\* the audit events of a decision (not of an override) logged for prompt p
DecisionEventsOf(log, p) ==
    {i \in 1..Len(log) : log[i].promptId = p /\ log[i].eventType # "override"}

\* the analysis results stored for prompt p
ResultsOf(results, p) == {i \in 1..Len(results) : results[i].promptId = p}

\* C15: for each prompt dequeued by the worker, once its pass is over the
\* decision engine has produced exactly one decision, one non-override audit
\* event and one stored result, whatever failures of the classifier,
\* notification or storage collaborators occurred during the pass.
C15_OnePassOneDecisionOneResult ==
    \A p \in PromptIds :
        (Pipeline /\ p \in SeqRange(started) /\ hpc[p] = "answered")
          => /\ decision[p].action \in Actions
             /\ Cardinality(DecisionEventsOf(auditLog, p)) = 1
             /\ Cardinality(ResultsOf(analysisResults, p)) = 1

(***************************************************************************)
(* The pipeline under the scheduling the code gives: a classifier request  *)
(* made by analyzePrompt returns or runs into its timeout, and the write   *)
(* of persistData completes. The dialogs of the notifications are answered *)
(* by the user, and nothing in the code ends one that is left open.        *)
(***************************************************************************)
ClassifierAnswers ==
    \/ \E p \in PromptIds, reply \in SlmReplies :
           classifyDone(p, [ok |-> TRUE, reply |-> reply])
    \/ \E p \in PromptIds, code \in FailureCodes :
           classifyDone(p, [ok |-> FALSE, code |-> code])

StorageAnswers == \E p \in PromptIds : storeDone(p)

\* a classifier call is awaited: the guard of classifyDone, which is all that
\* ENABLED <<ClassifierAnswers>>_vars asks for
ClassifierPending == \E p \in PromptIds : hpc[p] = "classify"

ClassifierEnabledWhenPending ==
    ClassifierPending <=> ENABLED <<ClassifierAnswers>>_vars

\* weak fairness of ClassifierAnswers, with ENABLED written as ClassifierPending
ClassifierFairness ==
    []<>(~ClassifierPending) \/ []<><<ClassifierAnswers>>_vars

SpecLive == Spec /\ ClassifierFairness /\ WF_vars(StorageAnswers)

\* C16: every prompt accepted into the queue and not cancelled before being
\* dequeued is eventually handed to the worker, and for every prompt that
\* reached the worker a decision and an audit record are eventually produced
\* and its submitter is eventually answered, given that every classifier call
\* returns or times out.
C16_AcceptedPromptsAnswered ==
    \A p \in 1..MaxPipelinePrompts :
        (p \in SeqRange(enqueued) /\ p \notin removed)
          ~> \/ p \in removed
             \/ /\ p \in SeqRange(started)
                /\ decision[p].action \in Actions
                /\ DecisionEventsOf(auditLog, p) # {}
                /\ settled[p] # << >>

(***************************************************************************)
(* Properties of cancellation.                                             *)
(***************************************************************************)
\* in this step the token of the already submitted prompt p is cancelled
TokenCancelled(p) == p \in SeqRange(enqueued) /\ p \notin cancelReq /\ p \in cancelReq'

\* in this step prompt p is submitted with a token that is already cancelled
SubmittedCancelled(p) ==
    requestCounter' = p /\ requestCounter = p - 1 /\ p \in cancelReq'

\* C17: cancelling a prompt that is still queued removes it from the queue and
\* rejects its submitter with the cancellation error, and its handler is never
\* invoked; cancelling a prompt that was already dequeued changes nothing, and
\* the submission is settled by the worker alone; a submission whose token is
\* already cancelled is rejected without being enqueued.
C17_CancelOnlyWhileQueued ==
    [][ \A p \in PromptIds :
          /\ (TokenCancelled(p) /\ p \in SeqRange(requestQueue))
                => /\ requestQueue' = Splice(requestQueue, IndexOf(requestQueue, p))
                   /\ p \notin SeqRange(requestQueue')
                   /\ settled'[p] = << "Cancelled" >>
                   /\ started' = started
          /\ (TokenCancelled(p) /\ p \notin SeqRange(requestQueue))
                => /\ requestQueue' = requestQueue
                   /\ settled' = settled
                   /\ hpc' = hpc
                   /\ started' = started
                   /\ isProcessing' = isProcessing
          /\ SubmittedCancelled(p)
                => /\ settled'[p] = << "Cancelled" >>
                   /\ requestQueue' = requestQueue
                   /\ enqueued' = enqueued
                   /\ started' = started
          /\ "Cancelled" \in SeqRange(settled[p])
                => /\ p \notin SeqRange(started')
                   /\ settled'[p] = settled[p]
          /\ p \in SeqRange(started')
                => settled'[p] \in {<< >>, << "resolved" >>, << "handler error" >>} ]_vars

\* one prompt was cancelled in the queue and never handled, one was cancelled
\* after the worker took it and was resolved by the worker, and one came with
\* a cancelled token and was never enqueued
C17_Witness ==
    \E p, q, r \in PromptIds :
        /\ {p, q, r} \subseteq cancelReq
        /\ p \in removed /\ settled[p] = << "Cancelled" >> /\ p \notin SeqRange(started)
        /\ q \in SeqRange(started) /\ settled[q] = << "resolved" >>
        /\ r \notin SeqRange(enqueued) /\ settled[r] = << "Cancelled" >>
        /\ ~disposed

(***************************************************************************)
(* Properties of the configuration.                                        *)
(***************************************************************************)
\* C18: after any sequence of configuration change events, accepted or
\* rejected, each touching any subset of the settings, the thresholds the
\* Gatekeeper applies to the next prompt are the entry of
\* SENSITIVITY_THRESHOLDS for the active sensitivity level of
\* ConfigurationService.
C18_ThresholdsFollowActiveLevel ==
    /\ gkConfig.blockThreshold =
           SENSITIVITY_THRESHOLDS[currentConfig.threatSensitivity].blockThreshold
    /\ gkConfig.warnThreshold =
           SENSITIVITY_THRESHOLDS[currentConfig.threatSensitivity].warnThreshold

\* C19: in every reachable state of the pipeline the block threshold of the
\* Gatekeeper is above its warn threshold, and both lie between 0 and 1
\* (0 and 100 hundredths).
C19_BlockAboveWarn ==
    /\ gkConfig.blockThreshold > gkConfig.warnThreshold
    /\ gkConfig.blockThreshold \in 0..100
    /\ gkConfig.warnThreshold \in 0..100

\* an accepted change of the sensitivity level has replaced the thresholds of
\* activation by those of another level, and a prompt was decided with them
C19_Witness ==
    /\ listenerCalls >= 1
    /\ currentConfig.threatSensitivity # DEFAULT_CONFIG.threatSensitivity
    /\ gkConfig.blockThreshold =
           SENSITIVITY_THRESHOLDS[currentConfig.threatSensitivity].blockThreshold
    /\ gkConfig.blockThreshold #
           SENSITIVITY_THRESHOLDS[DEFAULT_CONFIG.threatSensitivity].blockThreshold
    /\ \E p \in PromptIds : decision[p].action \in Actions

\* the settings fail validation: a level outside the three, or a timeout
\* under a second
FailsValidation(settings) ==
    \/ settings.threatSensitivity \notin {"low", "medium", "high"}
    \/ settings.timeout < 1000

\* in this step a configuration change event is delivered
ChangeDelivered == configChanges' = configChanges + 1

Merged == svcPc = "done" /\ svcBody.kind \in {"text", "json", "fenced json"}

\* safe < suspicious < dangerous
LevelRank(level) == CASE level = "safe" -> 1 [] level = "suspicious" -> 2 [] level = "dangerous" -> 3

\* C21: the merged threatLevel is the more severe of the local
\* suggestedThreatLevel and the remote threatLevel under
\* safe < suspicious < dangerous: it is one of the two and is less severe
\* than neither.
C21_MergedLevelIsMoreSevere ==
    Merged =>
        /\ svcAnalysis.threatLevel \in {svcLocal.suggestedThreatLevel, svcSlm.threatLevel}
        /\ LevelRank(svcAnalysis.threatLevel) >= LevelRank(svcLocal.suggestedThreatLevel)
        /\ LevelRank(svcAnalysis.threatLevel) >= LevelRank(svcSlm.threatLevel)

\* the local detection said dangerous, the classifier safe, and the merge
\* kept dangerous
C21_Witness ==
    /\ Merged
    /\ svcLocal.suggestedThreatLevel = "dangerous"
    /\ svcSlm.threatLevel = "safe"
    /\ svcAnalysis.threatLevel = "dangerous"

\* the local detection found indicators
LocalFound == Len(svcLocal.detectedPatterns) > 0

\* C22: the merged confidence lies in [0,1] and is min(1.0, remote + 0.1)
\* when local found indicators and remote is not safe, 0.6 when local found
\* indicators and remote says safe, and the remote confidence when local
\* found nothing (confidences in hundredths).
C22_MergedConfidence ==
    Merged =>
        /\ svcAnalysis.confidence \in 0..100
        /\ (LocalFound /\ svcSlm.threatLevel # "safe")
              => svcAnalysis.confidence = (IF svcSlm.confidence + 10 > 100 THEN 100
                                           ELSE svcSlm.confidence + 10)
        /\ (LocalFound /\ svcSlm.threatLevel = "safe") => svcAnalysis.confidence = 60
        /\ ~LocalFound => svcAnalysis.confidence = svcSlm.confidence

\* the boost met the cap: local indicators, a dangerous reply of confidence
\* 0.95, merged confidence 1.0
C22_Witness ==
    /\ Merged
    /\ LocalFound
    /\ svcSlm.threatLevel = "dangerous"
    /\ svcSlm.confidence = 95
    /\ svcAnalysis.confidence = 100

\* the categories that fired in the local detection
FiredCategories == {svcLocal.detectedPatterns[i].type : i \in 1..Len(svcLocal.detectedPatterns)}

HighSeverityCategories == {"rule_bypass", "secret_extraction", "command_injection"}

\* the place of a category in the fixed order of evaluation
CategoryPlace(c) ==
    CASE c = "rule_bypass" -> 1 [] c = "secret_extraction" -> 2
      [] c = "command_injection" -> 3 [] c = "role_manipulation" -> 4

\* C23: the local detector records at most one indicator per category, in
\* the fixed order of the four categories; its suggested level is safe iff no
\* category fired, dangerous iff a high-severity category fired or at least
\* three categories fired, and suspicious otherwise.
C23_LocalDetector ==
    svcPc # "idle" =>
        LET found  == svcLocal.detectedPatterns
            severe == FiredCategories \cap HighSeverityCategories # {}
                          \/ Cardinality(FiredCategories) >= 3
        IN  /\ \A i, j \in 1..Len(found) :
                  i < j => CategoryPlace(found[i].type) < CategoryPlace(found[j].type)
            /\ FiredCategories \subseteq Categories
            /\ (svcLocal.suggestedThreatLevel = "safe") <=> (found = << >>)
            /\ (svcLocal.suggestedThreatLevel = "dangerous") <=> severe
            /\ (svcLocal.suggestedThreatLevel = "suspicious") <=> (found # << >> /\ ~severe)
            /\ svcLocal.hasThreats <=> (found # << >>)

\* a prompt with two phrasings of one category gave one indicator, the first
C23_Witness ==
    /\ svcPc # "idle"
    /\ svcContent = {"ignore previous instructions", "jailbreak"}
    /\ Len(svcLocal.detectedPatterns) = 1
    /\ svcLocal.detectedPatterns[1].pattern = "ignore previous instructions"
    /\ svcLocal.suggestedThreatLevel = "dangerous"

\* C24: a classifier reply whose body is missing (empty) or is no parseable
\* JSON yields an analysis with threatLevel suspicious and confidence 0.5
\* whose reasoning notes the parse failure. Stated for prompts in which the
\* local detection found nothing, where the merge leaves the level, the
\* confidence and the reasoning of the parsed analysis as they are.
C24_UnusableBodyIsParseFailure ==
    (svcPc = "done" /\ svcBody.kind \in {"missing", "text"} /\ ~LocalFound) =>
        /\ svcAnalysis.threatLevel = "suspicious"
        /\ svcAnalysis.confidence = 50
        /\ svcAnalysis.reasoning = << Clause("Failed to parse security analysis response") >>

(***************************************************************************)
(* Properties of the prompt's way through the pipeline, under Spec.        *)
(***************************************************************************)
\* the decision for an allowed prompt carries the prompt as it was submitted,
\* and so does the resolution of its submission
AllowedPromptsIntact ==
    \A p \in PromptIds :
        decision[p].action = "allow" =>
            /\ decision[p].originalPrompt = prompt[p]
            /\ "resolved" \in SeqRange(settled[p]) => resolvedWith[p] = prompt[p]

\* C25: for every prompt whose decision is allow, the prompt carried by the
\* decision and the prompt returned to the submitter equal the prompt as
\* submitted, content included; and no step changes a field of a prompt once
\* it has been created.
C25_AllowedContentUnchanged ==
    [][ /\ \A p \in PromptIds : prompt[p] # NoPrompt => prompt'[p] = prompt[p]
        /\ AllowedPromptsIntact' ]_vars

\* a prompt with a pattern in it was allowed and its submission resolved with
\* the prompt submitted
C25_Witness ==
    \E p \in PromptIds :
        /\ decision[p].action = "allow"
        /\ hpc[p] = "answered"
        /\ settled[p] = << "resolved" >>
        /\ resolvedWith[p] = prompt[p]
        /\ decision[p].originalPrompt.id = p
        /\ prompt[p].content # {}

\* the texts an analysis carries in its indicators
TextsOf(an) == {an.detectedPatterns[j].pattern : j \in 1..Len(an.detectedPatterns)}

\* C26: prompts are never stored in plaintext: every audit event and every
\* record handed to local storage identifies its prompt by the digest of the
\* content, and carries neither the content nor a fragment of it.
C26_NoPlaintextStored ==
    /\ \A i \in 1..Len(auditLog) :
          auditLog[i].promptHash = hashPrompt(prompt[auditLog[i].promptId].content)
    /\ \A i \in 1..Len(storedAuditLog) :
          storedAuditLog[i].promptHash = hashPrompt(prompt[storedAuditLog[i].promptId].content)
    /\ \A i \in 1..Len(analysisResults) :
          LET r == analysisResults[i]
          IN  /\ r.promptHash = hashPrompt(prompt[r.promptId].content)
              /\ TextsOf(r.analysis) \cap prompt[r.promptId].content = {}

\* C27: when the decision for a prompt is block and no override of it was
\* confirmed, the submission is not completed as an analysed prompt handed
\* back to its submitter: its promise is not resolved with the prompt.
C27_BlockedNotHandedBack ==
    \A p \in PromptIds :
        (decision[p].action = "block" /\ ~overrideResult[p].userOverride)
            => /\ resolvedWith[p] = NoPrompt
               /\ "resolved" \notin SeqRange(settled[p])

\* the categories among the indicators of a list
CategoriesIn(patterns) == {patterns[i].type : i \in 1..Len(patterns)}

\* the local indicators, in local order, whose category the remote list lacks
LocalOnly == 
    LET IsNew(indicator) == indicator.type \notin CategoriesIn(svcSlm.detectedPatterns)
    IN  SelectSeq(svcLocal.detectedPatterns, IsNew)

\* C29: the merged indicator list is the remote indicators in their order
\* followed by, in local order, exactly the local indicators whose category
\* does not occur among the remote indicators.
C29_MergedIndicatorOrder ==
    Merged => svcAnalysis.detectedPatterns = svcSlm.detectedPatterns \o LocalOnly

\* a remote rule_bypass indicator took the place of the local one, and the
\* local role_manipulation indicator followed it
C29_Witness ==
    /\ Merged
    /\ svcContent = {"jailbreak", "you are now a"}
    /\ Len(svcSlm.detectedPatterns) = 1
    /\ svcSlm.detectedPatterns[1].type = "rule_bypass"
    /\ Len(svcAnalysis.detectedPatterns) = 2
    /\ svcAnalysis.detectedPatterns[1].pattern = "description"
    /\ svcAnalysis.detectedPatterns[2].pattern = "you are now a"

\* C30: the merged indicators are deduplicated by category: for every local
\* result and every remote reply that passed normalisation, the merged
\* analysis holds at most one indicator per category.
C30_MergedOnePerCategory ==
    Merged =>
        \A i, j \in 1..Len(svcAnalysis.detectedPatterns) :
            svcAnalysis.detectedPatterns[i].type = svcAnalysis.detectedPatterns[j].type
                => i = j

(***************************************************************************)
(* Properties of the worker's suspensions, under Spec.                     *)
(***************************************************************************)
\* C28: the worker suspends only while it awaits the classifier call and the
\* storage write: whenever the handler of a prompt has been invoked and has
\* not returned, it stands at one of the two, never at a user notification
\* that has not been answered, so that no notification holds up the dequeue
\* of the next prompt.
C28_WorkerSuspendsOnlyAtClassifierAndStorage ==
    Pipeline =>
        \A p \in PromptIds :
            (isProcessing /\ hpc[p] \in HandlerPcs) => hpc[p] \in {"classify", "store"}

(***************************************************************************)
(* Properties of the validation of a classifier reply, under SpecAnalyze.  *)
(***************************************************************************)
\* the reply was a JSON object and has been validated
Validated == svcPc = "done" /\ svcBody.kind \in {"json", "fenced json"}

\* the entries of the reply's indicator list that are objects, in order
ObjectEntries ==
    LET IsObject(item) == item.isObject
    IN  IF svcBody.detectedPatterns.isArray
        THEN SelectSeq(svcBody.detectedPatterns.items, IsObject)
        ELSE << >>

\* C31: validation of a parsed classifier reply always yields a well-formed
\* analysis: a threatLevel outside the three values becomes suspicious, a
\* confidence that is not a number in [0,1] becomes 0.5, entries that are no
\* objects are dropped, and an unknown category or severity becomes
\* rule_bypass or medium.
C31_ValidatedReplyWellFormed ==
    Validated =>
        /\ svcSlm.threatLevel \in {"safe", "suspicious", "dangerous"}
        /\ svcSlm.threatLevel =
              (IF svcBody.threatLevel \in {"safe", "suspicious", "dangerous"}
               THEN svcBody.threatLevel ELSE "suspicious")
        /\ svcSlm.confidence \in 0..100
        /\ svcSlm.confidence =
              (IF svcBody.confidence.isNumber /\ svcBody.confidence.value \in 0..100
               THEN svcBody.confidence.value ELSE 50)
        /\ Len(svcSlm.detectedPatterns) = Len(ObjectEntries)
        /\ \A i \in 1..Len(ObjectEntries) :
              LET raw == ObjectEntries[i]
                  out == svcSlm.detectedPatterns[i]
              IN  /\ out.type = (IF raw.type \in {"rule_bypass", "secret_extraction",
                                                  "command_injection", "role_manipulation"}
                                 THEN raw.type ELSE "rule_bypass")
                  /\ out.severity = (IF raw.severity \in {"low", "medium", "high"}
                                     THEN raw.severity ELSE "medium")

\* a reply with an unknown level, a confidence of 1.5, an entry that is no
\* object and an entry of unknown category and severity was validated
C31_Witness ==
    /\ Validated
    /\ svcBody.threatLevel = "critical"
    /\ svcBody.confidence = [isNumber |-> TRUE, value |-> 150]
    /\ Len(svcBody.detectedPatterns.items) = 2
    /\ ~svcBody.detectedPatterns.items[1].isObject
    /\ svcBody.detectedPatterns.items[2].type = "other"
    /\ svcSlm.threatLevel = "suspicious"
    /\ svcSlm.confidence = 50
    /\ Len(svcSlm.detectedPatterns) = 1
    /\ svcSlm.detectedPatterns[1].type = "rule_bypass"
    /\ svcSlm.detectedPatterns[1].severity = "medium"

(***************************************************************************)
(* Properties of the rotation of the stored audit log, under SpecStorage.  *)
(***************************************************************************)
\* in this step an event is stored
EventStored == storeCalls' = storeCalls + 1

\* the stored log after the step is the newest k of the events stored before
\* it and the new one, in their order
KeepsNewest(k) ==
    LET n == Len(storedAuditLog) + 1
    IN  /\ Len(storedAuditLog') = k
        /\ k >= 1 => storedAuditLog'[k].promptId = storeCalls'
        /\ \A i \in 1..(k - 1) : storedAuditLog'[i] = storedAuditLog[n - k + i]

\* C32 as amended: the audit sink rotates once its stored count, the new
\* event included, reaches the configured fraction of its maximum retention
\* (is at least that), and a rotation keeps the newest events up to half the
\* maximum retention, in their original order, dropping the older ones.
C32_RotatesAtThresholdKeepingHalfOfMax ==
    [][ EventStored =>
          LET n    == Len(storedAuditLog) + 1
              keep == storageConfig.maxAuditLogEntries \div 2
          IN  IF 10 * n >= storageConfig.maxAuditLogEntries
                                * storageConfig.rotationThresholdTenths
              THEN KeepsNewest(IF n <= keep THEN n ELSE keep)
              ELSE KeepsNewest(n) ]_vars

\* C32: the audit sink rotates once its stored count exceeds the configured
\* fraction of its maximum retention, and a rotation drops the oldest half of
\* the stored events, keeping the newest half in their original order.
C32_RotatesAboveThresholdDroppingHalf ==
    [][ EventStored =>
          LET n == Len(storedAuditLog) + 1
          IN  IF 10 * n > storageConfig.maxAuditLogEntries
                               * storageConfig.rotationThresholdTenths
              THEN KeepsNewest(n - (n \div 2))
              ELSE KeepsNewest(n) ]_vars

\* with a maximum of 10 and a fraction of 0.8 the eighth event brought the
\* rotation: events 4 to 8 are kept
C32_Witness ==
    /\ storageConfig = [maxAuditLogEntries |-> 10, rotationThresholdTenths |-> 8]
    /\ storeCalls = 8
    /\ Len(storedAuditLog) = 5
    /\ storedAuditLog[1].promptId = 4
    /\ storedAuditLog[5].promptId = 8

(***************************************************************************)
(* Properties of the merged reasoning, under SpecAnalyze.                  *)
(***************************************************************************)
\* the categories of the local indicators the remote list lacks, in order
LocalOnlyCategories == [i \in 1..Len(LocalOnly) |-> LocalOnly[i].type]

\* C33: the merged reasoning is the remote reasoning, and a clause listing
\* local categories is appended only when local detection found a category
\* the remote indicators do not contain; the clause lists only those
\* local-only categories.
C33_ReasoningListsLocalOnly ==
    Merged =>
        svcAnalysis.reasoning =
            (IF Len(LocalOnly) = 0
             THEN svcSlm.reasoning
             ELSE Append(svcSlm.reasoning,
                         [clause |-> "Local detection also identified",
                          types  |-> LocalOnlyCategories]))

(***************************************************************************)
(* Properties of the queue and its worker, under SpecQueue.                *)
(***************************************************************************)
\* C34: in every reachable state, if the request queue is not empty then the
\* worker is active (isProcessing is true), under every interleaving of
\* enqueue, handler completion, handler failure, cancellation and dispose.
C34_QueuedImpliesWorkerActive ==
    requestQueue # << >> => isProcessing

\* a request waits in the queue behind a running handler, after the handler of
\* an earlier prompt failed and a queued request was cancelled
C34_Witness ==
    /\ requestQueue # << >>
    /\ isProcessing
    /\ \E p \in PromptIds : hpc[p] = "handling"
    /\ \E p \in PromptIds : settled[p] = << "handler error" >>
    /\ \E p \in PromptIds : settled[p] = << "Cancelled" >>

\* the ways a submission is answered
AdmissionRejections == {"Queue capacity exceeded"}

RemovalRejections == {"Cancelled", "Interceptor disposed"}

WorkerAnswers == {"handler error", "resolved"}

\* C35: every submission is answered at most once, and an answered one exactly
\* once: rejected at admission, rejected on cancellation or dispose while
\* queued, rejected when its handler fails, or resolved after its handler
\* completes, never two of these; and no request removed by cancel or dispose
\* is passed to the handler.
C35_AnsweredOnce ==
    \A p \in PromptIds :
        /\ Len(settled[p]) <= 1
        /\ hpc[p] = "answered" <=> Len(settled[p]) = 1
        /\ p \in removed => p \notin SeqRange(started)
        /\ \A i \in 1..Len(settled[p]) :
              /\ settled[p][i] \in AdmissionRejections \cup RemovalRejections \cup WorkerAnswers
              /\ settled[p][i] \in AdmissionRejections => p \notin SeqRange(enqueued)
              /\ settled[p][i] \in RemovalRejections
                    => p \notin SeqRange(started)
                       /\ (p \in SeqRange(enqueued) <=> p \in removed)
              /\ settled[p][i] \in WorkerAnswers
                    => p \in SeqRange(started) /\ p \notin removed

\* every way of answering has happened once: an admission rejection, a
\* cancellation in the queue, a handler failure and a resolution
C35_Witness ==
    /\ \E p \in PromptIds : settled[p] = << "Queue capacity exceeded" >>
    /\ \E p \in PromptIds : settled[p] = << "Cancelled" >> /\ p \in removed
    /\ \E p \in PromptIds : settled[p] = << "handler error" >>
    /\ \E p \in PromptIds : settled[p] = << "resolved" >>

\* in this step the handler of prompt p fails
HandlerFailed(p) ==
    /\ hpc[p] = "handling"
    /\ settled'[p] = Append(settled[p], "handler error")

\* C36: when the handler of a dequeued prompt fails, only that prompt's
\* submitter is rejected with the error; the worker stays active and goes on
\* with the prompts still queued, in order: the head of the queue is dequeued
\* and its handler invoked in the same step, and the worker ends only when the
\* queue is empty.
C36_HandlerFailureIsolated ==
    [][ \A p \in PromptIds :
          HandlerFailed(p) =>
              /\ \A q \in PromptIds \ {p} : settled'[q] = settled[q]
              /\ IF requestQueue = << >>
                 THEN /\ ~isProcessing'
                      /\ started' = started
                 ELSE /\ isProcessing'
                      /\ requestQueue' = Tail(requestQueue)
                      /\ started' = Append(started, Head(requestQueue))
                      /\ hpc'[Head(requestQueue)] = "handling" ]_vars

\* the handler of the first prompt failed with two prompts queued behind it;
\* both were processed after it, in order
C36_Witness ==
    /\ enqueued = << 1, 2, 3 >>
    /\ started = << 1, 2, 3 >>
    /\ settled[1] = << "handler error" >>
    /\ settled[2] = << "resolved" >>
    /\ hpc[3] = "handling"

\* C37: after every enqueue, dequeue, cancellation and dispose, the queue
\* depth exposed by the monitor equals the number of queued requests, and the
\* exposed peak depth is never smaller than the exposed current depth.
C37_MonitorDepthIsQueueLength ==
    /\ queueStats.currentSize = Len(requestQueue)
    /\ queueStats.peakSize >= queueStats.currentSize

(***************************************************************************)
(* Properties of degraded mode, under Spec.                                *)
(***************************************************************************)
\* C38: whenever the pipeline is in degraded mode, the health state surfaced
\* to the host UI is not healthy.
C38_DegradedNeverShownHealthy ==
    isDegradedMode => uiHealth # "healthy"

\* the Gatekeeper applies the thresholds of the low or the medium level
LowOrMediumThresholds ==
    \E s \in {"low", "medium"} :
        /\ gkConfig.blockThreshold = SENSITIVITY_THRESHOLDS[s].blockThreshold
        /\ gkConfig.warnThreshold = SENSITIVITY_THRESHOLDS[s].warnThreshold

C40_ConfirmedOverrideReachesPipeline ==
    \A p \in PromptIds :
        ( /\ confirmation[p] = Confirmed
          /\ hpc[p] \in {"store", "answered"}
          /\ EventsOf(auditLog, p, "override") # {} )
          => /\ decision[p].action = "allow"
             /\ decision[p].userOverride
             /\ \A i \in ResultsOf(analysisResults, p) :
                    analysisResults[i].decision = "allow"

====
